---------------------------- MODULE Spec2Model ----------------------------
(***************************************************************************)
(* A model of the llm-router gateway: the API key store and its Redis      *)
(* cache (utils/auth.py), the authentication dependency                    *)
(* (api/dependencies.py), the key endpoints (api/auth.py), the JWT token   *)
(* manager (utils/tokens.py, api/token_auth.py), the provider registry     *)
(* (providers/clients.py) and the completion handler (api/chat.py).        *)
(*                                                                         *)
(* Strings are modelled as sequences of atoms: an atom stands for a        *)
(* substring the code tests for or copies as a whole ("Bearer ", the key   *)
(* prefix, the random body of a secret, a JWT).  Time is in seconds.       *)
(***************************************************************************)
EXTENDS Naturals, Integers, Sequences, FiniteSets, TLC

VARIABLES
  api_keys,     \* table api_keys: a set of rows (models/api_key.py)
  redis,        \* the Redis cache: cache key -> [value, expires]
  now,          \* the clock, in seconds
  ticks,        \* how many times the clock has advanced
  nkeys,        \* how many keys have been generated (uuid4 / token_urlsafe draws)
  issued,       \* what the create responses returned: id -> raw secret
  resp,         \* the response of the last operation
  tokens,       \* the JWTs issued so far, in order of issue (held by callers)
  sessions,     \* concurrent requests, each on its own store session
  registry,     \* the ClientManager: clients, provider_models, model_to_provider
  usage_logs,   \* table usage_logs, in order of insertion
  req           \* the completion request being handled

vars == <<api_keys, redis, now, ticks, nkeys, issued, resp, tokens, sessions,
          registry, usage_logs, req>>

\* what the key operations leave alone
notKeyVars == <<tokens, sessions, registry, usage_logs, req>>
gatewayVars == <<registry, usage_logs, req>>

-----------------------------------------------------------------------------
(* Bounds of the model *)

MaxKeys == 2
MaxUsage == 2
MaxTicks == 1
MaxTokens == 2
MaxSessions == 3
MaxChunks == 2
MaxRequests == 3

-----------------------------------------------------------------------------
(* Strings *)

Atom(t, n) == [t |-> t, n |-> n]
BearerAtom == Atom("Bearer ", 0)
PrefixAtom == Atom("llm-router-", 0)
RandAtom(n) == Atom("urlsafe", n)
BlankAtom == Atom(" ", 0)
EmptyAtom == Atom("", 0)

\* None where a record is expected, and where a string is: the code tests its
\* strings for truth only, which None and "" both fail
None == [none |-> TRUE]
NoStr == << >>
NoTime == 0 - 1

\* the names a caller may give a key, each as its ':'-separated fragments
Names == {<<"alice">>, <<"a", "b">>}

BoolStr(b) == IF b THEN "True" ELSE "False"

\* hashlib.sha256(key.encode()).hexdigest(): one-way and collision free
sha256(s) == [alg |-> "sha256", msg |-> s]

\* "ak_" + uuid4().hex[:16], the n-th draw
KeyId(n) == "ak_" \o ToString(n)

\* generate_api_key: prefix + secrets.token_urlsafe(32), the n-th draw
generate_api_key(n) ==
  LET key == <<PrefixAtom, RandAtom(n)>>
  IN  [key |-> key, key_hash |-> sha256(key)]

-----------------------------------------------------------------------------
(* The Redis cache *)

CacheTTL == 3600

CacheKey(key_hash) == [ns |-> "api_key", hash |-> key_hash]

\* a cache value with the name in front of the id
FormatCache_NameFirst(id, name, is_active) == name \o <<id>> \o <<BoolStr(is_active)>>

\* f"{id}:{name}:{is_active}", as the fields a ':' separates
FormatCache(id, name, is_active) == <<id>> \o name \o <<BoolStr(is_active)>>

\* str.split(":", 2): at most two splits, the rest stays joined
Split2(fields) ==
  IF Len(fields) < 3 THEN fields
  ELSE <<<<fields[1]>>, <<fields[2]>>, SubSeq(fields, 3, Len(fields))>>

redis_get(k) ==
  IF k \in DOMAIN redis /\ now < redis[k].expires THEN redis[k].value ELSE NoStr

redis_setex(r, k, ttl, v) ==
  [x \in DOMAIN r \cup {k} |->
     IF x = k THEN [value |-> v, expires |-> now + ttl] ELSE r[x]]

-----------------------------------------------------------------------------
(* The key store *)

QueryById(key_id) ==
  LET rows == {r \in api_keys : r.id = key_id}
  IN  IF rows = {} THEN None ELSE CHOOSE r \in rows : TRUE

\* a by-hash query that leaves out the is_active filter
QueryByHashActive_NoFilter(key_hash) ==
  LET rows == {r \in api_keys : r.key_hash = key_hash}
  IN  IF rows = {} THEN None ELSE CHOOSE r \in rows : TRUE

QueryByHashActive(key_hash) ==
  LET rows == {r \in api_keys : r.key_hash = key_hash /\ r.is_active = TRUE}
  IN  IF rows = {} THEN None ELSE CHOOSE r \in rows : TRUE

\* APIKeyManager.verify_api_key: the record returned, and the cache afterwards.
\* getok, setok: whether the Redis read / write is carried out (Redis is optional
\* and every failure of it is swallowed).
VerifyCached(key_hash, getok) ==
  LET cached == IF getok THEN redis_get(CacheKey(key_hash)) ELSE NoStr
  IN  IF cached = NoStr THEN [hit |-> FALSE]
      ELSE LET parts == Split2(cached)
           IN  \* fewer than three parts: the unpacking raises, which is swallowed
               IF Len(parts) = 3 /\ parts[3] = <<"True">>
               THEN [hit |-> TRUE, key_id |-> parts[1][1]]
               ELSE [hit |-> FALSE]

verify_api_key(key, getok, setok) ==
  LET key_hash == sha256(key)
      c == VerifyCached(key_hash, getok)
      api_key == QueryByHashActive(key_hash)
      \* what redis.get returned, and the store queries that were run
      cached == IF getok THEN redis_get(CacheKey(key_hash)) ELSE NoStr
  IN  IF c.hit
      THEN [record |-> QueryById(c.key_id), redis |-> redis,
            cached |-> cached, queries |-> <<"id">>]
      ELSE [record |-> api_key,
            redis  |-> IF api_key # None /\ setok
                       THEN redis_setex(redis, CacheKey(key_hash), CacheTTL,
                              FormatCache(api_key.id, api_key.name, api_key.is_active))
                       ELSE redis,
            cached |-> cached, queries |-> <<"key_hash, is_active">>]

\* an increment that counts a use twice
increment_usage_Twice(keys, api_key) ==
  {IF r.id = api_key.id THEN [r EXCEPT !.usage_count = api_key.usage_count + 2] ELSE r
     : r \in keys}

\* APIKeyManager.increment_usage on the record a session loaded: the UPDATE
\* writes the loaded usage_count plus one; last_used_at is no column of the table
increment_usage(keys, api_key) ==
  {IF r.id = api_key.id THEN [r EXCEPT !.usage_count = api_key.usage_count + 1] ELSE r
     : r \in keys}

\* No completion request has been made yet
IdleReq ==
  [pc |-> "idle", cred |-> [authorization |-> NoStr, x_api_key |-> NoStr],
   model |-> "", provider |-> "", stream |-> FALSE, key_id |-> "", resolved |-> "",
   calls |-> 0, code |-> 0, detail |-> "", usage |-> None, content |-> None,
   received |-> << >>,
   out |-> << >>, total_tokens |-> 0, persist |-> "", log0 |-> 0,
   raised |-> "", message |-> ""]

-----------------------------------------------------------------------------
(* Operations *)

InitKeys ==
  /\ api_keys = {}
  /\ redis = << >>
  /\ now = 0
  /\ ticks = 0
  /\ nkeys = 0
  /\ issued = << >>
  /\ resp = [op |-> "none"]
  /\ tokens = << >>
  /\ sessions = [i \in 1..MaxSessions |-> [pc |-> "start", key |-> NoStr, record |-> None]]
  /\ usage_logs = << >>
  /\ req = IdleReq

\* the description of a create request: a string, or null
Description(s) == [text |-> s]
Descriptions == {Description(NoStr), None}

\* the message of a store that raises
StoreError == "database is locked"

\* api/auth.py lines 25-28: the detail of the 500 for a store that raises in
\* create_api_key
CreateFailed == "Failed to create API key: " \o StoreError

\* the response of POST /v1/api-keys/ to a request with this description:
\* APIKeyResponse (schemas.py) takes a string only, and the handler turns the
\* validation error into a 500 that carries neither the id nor the secret
CreateResponse(key_id, key, description) ==
  IF description = None
  THEN [op |-> "create", code |-> 500,
        detail |-> "Failed to create API key: 1 validation error for APIKeyResponse",
        id |-> "-", key |-> NoStr]
  ELSE [op |-> "create", code |-> 200, detail |-> "ok", id |-> key_id, key |-> key]

\* what the store does with the statements of create_api_key: it runs them, it
\* raises at the INSERT or the commit of line 55, or it raises at the refresh
\* of line 56, after the commit
CreateOutcomes == {"ok", "commit raises", "refresh raises"}

\* a create_api_key that stores the secret as it is
CreateKey_StoresSecret(name, description, setok, db) ==
  /\ nkeys < MaxKeys
  /\ LET g == generate_api_key(nkeys + 1)
         key_id == KeyId(nkeys + 1)
         plain == [alg |-> "plain", msg |-> g.key]
         row == [id |-> key_id, key_hash |-> plain, name |-> name,
                 description |-> description,
                 is_active |-> TRUE, usage_count |-> 0, last_used |-> NoTime]
     IN  IF db = "commit raises"
         THEN /\ resp' = [op |-> "create", code |-> 500, detail |-> CreateFailed,
                          id |-> "-", key |-> NoStr]
              /\ UNCHANGED <<api_keys, redis, issued, nkeys>>
         ELSE IF db = "refresh raises"
         THEN /\ api_keys' = api_keys \cup {row}
              /\ nkeys' = nkeys + 1
              /\ resp' = [op |-> "create", code |-> 500, detail |-> CreateFailed,
                          id |-> "-", key |-> NoStr]
              /\ UNCHANGED <<redis, issued>>
         ELSE /\ api_keys' = api_keys \cup {row}
              /\ redis' = IF setok
                          THEN redis_setex(redis, CacheKey(plain), CacheTTL,
                                 FormatCache(row.id, row.name, row.is_active))
                          ELSE redis
              /\ issued' = IF description = None THEN issued
                           ELSE issued @@ (key_id :> g.key)
              /\ resp' = CreateResponse(key_id, g.key, description)
              /\ nkeys' = nkeys + 1
  /\ UNCHANGED <<now, ticks, notKeyVars>>

\* POST /v1/api-keys/: APIKeyManager.create_api_key adds the row, commits and
\* refreshes it (db: what the store does), writes the cache entry, then builds
\* the response; the secret is issued when the response carries it.  A store
\* that raises at the INSERT or at the commit leaves no row and no cache entry;
\* a store that raises at the refresh has committed the row, and the cache
\* entry is not written and the secret is not returned.  The handler answers
\* both with 500 and the message of the error (api/auth.py 25-28)
CreateKey(name, description, setok, db) ==
  /\ nkeys < MaxKeys
  /\ LET g == generate_api_key(nkeys + 1)
         key_id == KeyId(nkeys + 1)
         row == [id |-> key_id, key_hash |-> g.key_hash, name |-> name,
                 description |-> description,
                 is_active |-> TRUE, usage_count |-> 0, last_used |-> NoTime]
     IN  IF db = "commit raises"
         THEN /\ resp' = [op |-> "create", code |-> 500, detail |-> CreateFailed,
                          id |-> "-", key |-> NoStr]
              /\ UNCHANGED <<api_keys, redis, issued, nkeys>>
         ELSE IF db = "refresh raises"
         THEN /\ api_keys' = api_keys \cup {row}
              /\ nkeys' = nkeys + 1
              /\ resp' = [op |-> "create", code |-> 500, detail |-> CreateFailed,
                          id |-> "-", key |-> NoStr]
              /\ UNCHANGED <<redis, issued>>
         ELSE /\ api_keys' = api_keys \cup {row}
              /\ redis' = IF setok
                          THEN redis_setex(redis, CacheKey(g.key_hash), CacheTTL,
                                 FormatCache(row.id, row.name, row.is_active))
                          ELSE redis
              /\ issued' = IF description = None THEN issued
                           ELSE issued @@ (key_id :> g.key)
              /\ resp' = CreateResponse(key_id, g.key, description)
              /\ nkeys' = nkeys + 1
  /\ UNCHANGED <<now, ticks, notKeyVars>>

\* A direct call of APIKeyManager.verify_api_key
VerifyKey(key, getok, setok) ==
  /\ LET v == verify_api_key(key, getok, setok)
     IN  /\ redis' = v.redis
         /\ resp' = [op |-> "verify", key |-> key, record |-> v.record]
  /\ UNCHANGED <<api_keys, now, ticks, nkeys, issued, notKeyVars>>

\* A direct call of APIKeyManager.verify_api_key, with what it read from the
\* cache and which store queries it ran
VerifyLookup(key, getok, setok) ==
  /\ LET v == verify_api_key(key, getok, setok)
     IN  /\ redis' = v.redis
         /\ resp' = [op |-> "lookup", key |-> key, getok |-> getok,
                     record |-> v.record, cached |-> v.cached, queries |-> v.queries]
  /\ UNCHANGED <<api_keys, now, ticks, nkeys, issued, notKeyVars>>

-----------------------------------------------------------------------------
(* api/dependencies.py: verify_api_key, the authentication dependency *)

startswith(s, a) == Len(s) > 0 /\ s[1] = a
contains(s, a) == \E i \in 1..Len(s) : s[i] = a
find(s, a) == CHOOSE i \in 1..Len(s) : s[i] = a /\ \A j \in 1..(i - 1) : s[j] # a
replace(s, a) == SelectSeq(s, LAMBDA x : x # a)

\* not s: None and "" alike; a header sent with an empty value is <<EmptyAtom>>
falsy(s) == \A i \in 1..Len(s) : s[i] = EmptyAtom

\* the characters of a string, the empty pieces left out
Text(s) == replace(s, EmptyAtom)

RECURSIVE lstrip(_)
\* the leading whitespace removed
lstrip(s) ==
  IF s # << >> /\ s[1] \in {BlankAtom, EmptyAtom} THEN lstrip(Tail(s)) ELSE s

RECURSIVE rstrip(_)
\* the trailing whitespace removed, the blank that ends "Bearer " included
rstrip(s) ==
  IF s = << >> THEN s
  ELSE LET last == s[Len(s)]
           front == SubSeq(s, 1, Len(s) - 1)
       IN  IF last \in {BlankAtom, EmptyAtom} THEN rstrip(front)
           ELSE IF last = BearerAtom THEN front \o <<Atom("Bearer", 0)>>
           ELSE s

\* str.strip()
strip(s) == lstrip(rstrip(s))

\* lines 27-46: the header value the key is taken from
AuthHeader(authorization, x_api_key) ==
  IF ~falsy(authorization) THEN authorization
  ELSE IF ~falsy(x_api_key)
       THEN IF startswith(x_api_key, PrefixAtom) THEN x_api_key
            ELSE <<BearerAtom>> \o x_api_key
       ELSE NoStr

\* lines 69-82: the key value extracted from the header value
ExtractKey(auth_header) ==
  IF startswith(auth_header, BearerAtom) THEN strip(replace(auth_header, BearerAtom))
  ELSE IF startswith(auth_header, PrefixAtom) THEN strip(auth_header)
  ELSE IF contains(auth_header, PrefixAtom)
       THEN strip(SubSeq(auth_header, find(auth_header, PrefixAtom), Len(auth_header)))
       ELSE NoStr

\* the number of characters of a string
AtomLen(a) ==
  CASE a.t = "Bearer " -> 7
    [] a.t = "Bearer" -> 6
    [] a.t = "" -> 0
    [] a.t = "llm-router-" -> 11
    [] a.t = "urlsafe" -> 43
    [] a.t = "jwt" -> 200
    [] OTHER -> 1

RECURSIVE Slice(_, _)
\* s[:n]: the first n characters; what is left of an atom that is cut is an
\* atom of its own
Slice(s, n) ==
  IF s = << >> \/ n <= 0 THEN << >>
  ELSE IF AtomLen(s[1]) <= n THEN <<s[1]>> \o Slice(Tail(s), n - AtomLen(s[1]))
  ELSE <<Atom("cut", n)>>

\* dict(request.headers): the headers the request carries, each with its
\* value; a header that is not sent is NoStr, one sent empty is <<EmptyAtom>>
RequestHeaders(cred) ==
  {<<"host", <<Atom("gateway", 0)>>>>}
    \cup (IF cred.authorization = NoStr THEN {}
          ELSE {<<"authorization", Text(cred.authorization)>>})
    \cup (IF cred.x_api_key = NoStr THEN {}
          ELSE {<<"x-api-key", Text(cred.x_api_key)>>})

\* lines 56-67: the detail of the 401 for a request without a credential
MissingDetail(cred) ==
  [error |-> "Missing authorization header",
   message |-> "Add one of these headers:",
   options |-> <<"Authorization: Bearer llm-router-your-key",
                 "x-api-key: llm-router-your-key">>,
   debug_headers |-> RequestHeaders(cred)]

\* lines 87-95: the detail of the 401 for a header no key can be taken from
FormatDetail(auth_header) ==
  [error |-> "Invalid authorization format",
   message |-> "API key must start with 'llm-router-'",
   received |-> Slice(auth_header, 50),
   expected_format |-> "llm-router-abc123..."]

\* what the store does with the statements of a request: it runs them, it
\* raises at the queries, it raises at the commit, or it raises after the
\* commit, at the reload of the expired record that line 113 reads
StoreOutcomes == {"ok", "query raises", "commit raises", "reload raises"}

\* lines 118-122: the detail of the 401 for an exception of the store
VerificationFailed == "API key verification failed: " \o StoreError

\* a dependency that looks up whatever the header holds
Authenticate_NoExtraction(cred, getok, setok, db) ==
  LET auth_header == AuthHeader(cred.authorization, cred.x_api_key)
      v == verify_api_key(auth_header, getok, setok)
  IN  IF v.record = None \/ ~v.record.is_active
      THEN [code |-> 401, detail |-> "Invalid or expired API key", record |-> None,
            keys |-> api_keys, redis |-> v.redis, lookup |-> auth_header,
            body |-> [detail |-> "Invalid or expired API key"]]
      ELSE IF db = "reload raises"
      THEN [code |-> 401, detail |-> VerificationFailed, record |-> None,
            keys |-> increment_usage(api_keys, v.record),
            redis |-> v.redis, lookup |-> auth_header,
            body |-> [detail |-> VerificationFailed]]
      ELSE [code |-> 200, detail |-> "ok",
            record |-> [v.record EXCEPT !.usage_count = @ + 1],
            keys |-> increment_usage(api_keys, v.record),
            redis |-> v.redis, lookup |-> auth_header, body |-> [detail |-> "ok"]]

\* The whole dependency: the response code and detail, the record returned to
\* the handler, and the store and cache afterwards; lookup is the key value
\* handed to APIKeyManager.verify_api_key (none when it is not called) and
\* body the detail of the HTTPException.  db is what the store does: a query
\* that raises ends verify_api_key before the cache is written, a commit that
\* raises leaves the row as it was, and a reload that raises (line 113 reads
\* api_key_record.name, which the commit of increment_usage expired) answers
\* 401 with the increment already committed.
Authenticate(cred, getok, setok, db) ==
  LET auth_header == AuthHeader(cred.authorization, cred.x_api_key)
      fail(detail) == [code |-> 401, detail |-> detail, record |-> None,
                       keys |-> api_keys, redis |-> redis, lookup |-> NoStr,
                       body |-> [detail |-> detail]]
  IN  IF falsy(auth_header)
      THEN [fail("Missing authorization header") EXCEPT !.body = MissingDetail(cred)]
      ELSE LET api_key_value == ExtractKey(auth_header)
           IN  IF falsy(api_key_value)
               THEN [fail("Invalid authorization format")
                       EXCEPT !.body = FormatDetail(auth_header)]
               ELSE IF db = "query raises"
               THEN [fail(VerificationFailed) EXCEPT !.lookup = api_key_value]
               ELSE LET v == verify_api_key(api_key_value, getok, setok)
                    IN  IF v.record = None
                        THEN [fail("Invalid or expired API key")
                                EXCEPT !.redis = v.redis, !.lookup = api_key_value]
                        ELSE IF ~v.record.is_active
                        THEN [fail("API key is disabled")
                                EXCEPT !.redis = v.redis, !.lookup = api_key_value]
                        ELSE IF db = "commit raises"
                        THEN [fail(VerificationFailed)
                                EXCEPT !.redis = v.redis, !.lookup = api_key_value]
                        ELSE IF db = "reload raises"
                        THEN [fail(VerificationFailed)
                                EXCEPT !.keys = increment_usage(api_keys, v.record),
                                       !.redis = v.redis, !.lookup = api_key_value]
                        ELSE [code |-> 200, detail |-> "ok",
                              record |-> [v.record EXCEPT !.usage_count = @ + 1],
                              keys |-> increment_usage(api_keys, v.record),
                              redis |-> v.redis, lookup |-> api_key_value,
                              body |-> [detail |-> "ok"]]

\* an authenticated request may still be made: the usage counters are capped
\* in total
RECURSIVE SumUsage(_)
SumUsage(rows) ==
  IF rows = {} THEN 0
  ELSE LET r == CHOOSE x \in rows : TRUE
       IN  r.usage_count + SumUsage(rows \ {r})

UsageRoom(a) == a.keys # api_keys => SumUsage(a.keys) <= MaxUsage

\* main.py lines 112-117: the body of every answer with status 404
not_found_handler == [error |-> [message |-> "Not found", type |-> "not_found"]]

\* main.py lines 120-128: the body of the 500 for an exception that leaves a
\* handler
internal_error_handler ==
  [error |-> [message |-> "Internal server error", type |-> "internal_error"]]

\* a request slot that holds no request
FreeSlot == [pc |-> "start", key |-> NoStr, record |-> None]

\* a request whose dependency has returned and whose handler is still to run:
\* get_current_api_key is a plain function, so the request waits for the
\* thread pool after verify_api_key has committed, and other requests may run
\* before the handler does.  record is the row as the session of the request
\* reloaded it after its commit (line 113), which is what the handler reads
Waiting(op, model_id, cred, a) ==
  [pc |-> "endpoint", key |-> NoStr, record |-> a.record, op |-> op,
   model_id |-> model_id, cred |-> cred, lookup |-> a.lookup]

\* GET /v1/api-keys/current up to the handler: the dependency; a failure is
\* answered at once
GetCurrentKeyDepends(i, cred, getok, setok, db) ==
  /\ sessions[i].pc = "start"
  /\ LET a == Authenticate(cred, getok, setok, db)
     IN  /\ UsageRoom(a)
         /\ api_keys' = a.keys
         /\ redis' = a.redis
         /\ IF a.code # 200
            THEN /\ resp' = [op |-> "current", code |-> a.code, detail |-> a.detail,
                             id |-> "-"]
                 /\ UNCHANGED sessions
            ELSE /\ sessions' = [sessions EXCEPT ![i] = Waiting("current", "", cred, a)]
                 /\ UNCHANGED resp
  /\ UNCHANGED <<now, ticks, nkeys, issued, tokens, gatewayVars>>

\* GET /v1/api-keys/current, the handler get_current_key_info: APIKeyInfo
\* takes a string as description only, and its validation error leaves the
\* handler: the answer is the one of internal_error_handler, whose message is
\* the detail here
GetCurrentKey(i) ==
  /\ sessions[i].pc = "endpoint" /\ sessions[i].op = "current"
  /\ LET current_key == sessions[i].record
     IN  resp' = IF current_key.description = None
                 THEN [op |-> "current", code |-> 500,
                       detail |-> internal_error_handler.error.message, id |-> "-"]
                 ELSE [op |-> "current", code |-> 200, detail |-> "ok",
                       id |-> current_key.id]
  /\ sessions' = [sessions EXCEPT ![i] = FreeSlot]
  /\ UNCHANGED <<api_keys, redis, now, ticks, nkeys, issued, tokens, gatewayVars>>

\* DELETE /v1/api-keys/{key_id}, up to the handler: the dependency verifies the
\* key and commits the increment; get_current_api_key is a plain function, so
\* the request then waits for the thread pool and other requests may run
\* before delete_api_key does.  The commit expires the record the session
\* holds, so the request keeps the identity of its key and the handler reads
\* the row again.
DeleteKeyDepends(i, key_id, cred, getok, setok, db) ==
  /\ sessions[i].pc = "start"
  /\ LET a == Authenticate(cred, getok, setok, db)
     IN  /\ UsageRoom(a)
         /\ api_keys' = a.keys
         /\ redis' = a.redis
         /\ IF a.code # 200
            THEN /\ resp' = [op |-> "delete", code |-> a.code, detail |-> a.detail,
                             id |-> "-", key_id |-> key_id]
                 /\ UNCHANGED sessions
            ELSE /\ resp' = [op |-> "depends", code |-> a.code, detail |-> a.detail,
                             id |-> a.record.id, key_id |-> key_id]
                 /\ sessions' = [sessions EXCEPT ![i] =
                      [pc |-> "handler", key |-> NoStr, record |-> None,
                       id |-> a.record.id, key_id |-> key_id]]
  /\ UNCHANGED <<now, ticks, nkeys, issued, tokens, gatewayVars>>

\* lines 89-92: the detail of the 500 for a commit that raises
DeleteFailed == "Failed to delete API key: " \o StoreError

\* the response of delete_api_key
DeleteResponse(code, detail, id, key_id) ==
  [op |-> "delete", code |-> code, detail |-> detail, id |-> id, key_id |-> key_id]

\* a delete_api_key that deactivates whatever key the path names
DeleteKey_AnyKey(i, dbok) ==
  /\ sessions[i].pc = "handler"
  /\ LET current_key == QueryById(sessions[i].id)
         key_id == sessions[i].key_id
     IN  /\ api_keys' = IF dbok
                        THEN {IF r.id = key_id THEN [r EXCEPT !.is_active = FALSE] ELSE r
                               : r \in api_keys}
                        ELSE api_keys
         /\ resp' = IF dbok
                    THEN DeleteResponse(200, "API key deactivated successfully",
                                        current_key.id, key_id)
                    ELSE DeleteResponse(500, DeleteFailed, current_key.id, key_id)
  /\ sessions' = [sessions EXCEPT ![i] = FreeSlot]
  /\ UNCHANGED <<redis, now, ticks, nkeys, issued, tokens, gatewayVars>>

\* a delete_api_key that removes the row
DeleteKey_HardDelete(i, dbok) ==
  /\ sessions[i].pc = "handler"
  /\ LET current_key == QueryById(sessions[i].id)
         key_id == sessions[i].key_id
     IN  IF key_id # current_key.id
         THEN /\ api_keys' = api_keys
              /\ resp' = DeleteResponse(403, "You can only delete your own API key",
                                        current_key.id, key_id)
         ELSE IF ~dbok
         THEN /\ api_keys' = api_keys
              /\ resp' = DeleteResponse(500, DeleteFailed, current_key.id, key_id)
         ELSE /\ api_keys' = {r \in api_keys : r.id # current_key.id}
              /\ resp' = DeleteResponse(200, "API key deactivated successfully",
                                        current_key.id, key_id)
  /\ sessions' = [sessions EXCEPT ![i] = FreeSlot]
  /\ UNCHANGED <<redis, now, ticks, nkeys, issued, tokens, gatewayVars>>

\* a delete_api_key that also drops the key's cache entry
DeleteKey_Evicts(i, dbok) ==
  /\ sessions[i].pc = "handler"
  /\ LET current_key == QueryById(sessions[i].id)
         key_id == sessions[i].key_id
     IN  IF key_id # current_key.id
         THEN /\ UNCHANGED <<api_keys, redis>>
              /\ resp' = DeleteResponse(403, "You can only delete your own API key",
                                        current_key.id, key_id)
         ELSE IF ~dbok
         THEN /\ UNCHANGED <<api_keys, redis>>
              /\ resp' = DeleteResponse(500, DeleteFailed, current_key.id, key_id)
         ELSE /\ api_keys' = {IF r.id = current_key.id
                              THEN [r EXCEPT !.is_active = FALSE] ELSE r : r \in api_keys}
              /\ redis' = [k \in {x \in DOMAIN redis : x # CacheKey(current_key.key_hash)}
                             |-> redis[k]]
              /\ resp' = DeleteResponse(200, "API key deactivated successfully",
                                        current_key.id, key_id)
  /\ sessions' = [sessions EXCEPT ![i] = FreeSlot]
  /\ UNCHANGED <<now, ticks, nkeys, issued, tokens, gatewayVars>>

\* DELETE /v1/api-keys/{key_id}, the handler delete_api_key: the UPDATE sets
\* is_active of the row of the authenticated key and nothing else; dbok is
\* whether its commit is carried out
DeleteKey(i, dbok) ==
  /\ sessions[i].pc = "handler"
  /\ LET current_key == QueryById(sessions[i].id)
         key_id == sessions[i].key_id
     IN  IF key_id # current_key.id
         THEN /\ api_keys' = api_keys
              /\ resp' = DeleteResponse(403, "You can only delete your own API key",
                                        current_key.id, key_id)
         ELSE IF ~dbok
         THEN /\ api_keys' = api_keys
              /\ resp' = DeleteResponse(500, DeleteFailed, current_key.id, key_id)
         ELSE /\ api_keys' = {IF r.id = current_key.id
                              THEN [r EXCEPT !.is_active = FALSE] ELSE r : r \in api_keys}
              /\ resp' = DeleteResponse(200, "API key deactivated successfully",
                                        current_key.id, key_id)
  /\ sessions' = [sessions EXCEPT ![i] = FreeSlot]
  /\ UNCHANGED <<redis, now, ticks, nkeys, issued, tokens, gatewayVars>>

\* Time passes; Redis drops the entries whose TTL has run out
Tick(d) ==
  /\ ticks < MaxTicks
  /\ ticks' = ticks + 1
  /\ now' = now + d
  /\ redis' = [k \in {x \in DOMAIN redis : now + d < redis[x].expires} |-> redis[k]]
  /\ resp' = [op |-> "tick"]
  /\ UNCHANGED <<api_keys, nkeys, issued, notKeyVars>>

-----------------------------------------------------------------------------
(* Concurrent requests: the authentication dependency run by several requests
   at once, each on the session get_db gave it.  A request reads the key row
   into its session (verify_api_key) and later writes it back
   (increment_usage); other requests may run in between. *)

\* dependencies.py lines 97-108: the key row is loaded into the session
ReqVerify(i, cred, up) ==
  /\ sessions[i].pc = "start"
  /\ LET auth_header == AuthHeader(cred.authorization, cred.x_api_key)
         api_key_value == IF falsy(auth_header) THEN NoStr ELSE ExtractKey(auth_header)
     IN  IF falsy(api_key_value)
         THEN /\ sessions' = [sessions EXCEPT ![i].pc = "rejected"]
              /\ UNCHANGED redis
         ELSE LET v == verify_api_key(api_key_value, up, up)
              IN  /\ redis' = v.redis
                  /\ sessions' = [sessions EXCEPT ![i] =
                       [pc |-> IF v.record = None \/ ~v.record.is_active
                               THEN "rejected" ELSE "loaded",
                        key |-> api_key_value, record |-> v.record]]
  /\ UNCHANGED <<api_keys, now, ticks, nkeys, issued, resp, tokens, gatewayVars>>

\* dependencies.py line 111: increment_usage flushes the loaded row and commits
ReqIncrement(i) ==
  /\ sessions[i].pc = "loaded"
  /\ api_keys' = increment_usage(api_keys, sessions[i].record)
  /\ sessions' = [sessions EXCEPT ![i].pc = "done"]
  /\ UNCHANGED <<redis, now, ticks, nkeys, issued, resp, tokens, gatewayVars>>

-----------------------------------------------------------------------------
(* utils/tokens.py: TokenManager, and the endpoints of api/token_auth.py *)

SecondsPerHour == 60 * 60
secret_key == "change-this-secret-key-in-production"
default_expiry == 24 * SecondsPerHour
MinHours == 1
MaxHours == 168

\* HS256: the signature is a keyed digest of the payload
hmac(key, msg) == [key |-> key, msg |-> msg]
jwt_encode(payload, key) == [payload |-> payload, sig |-> hmac(key, payload)]

\* jwt.decode(token, key, algorithms=["HS256"]): the structure, then the
\* signature, then the registered claims against the clock, iat before exp
jwt_decode(token, key) ==
  IF "payload" \notin DOMAIN token THEN [err |-> "DecodeError"]
  ELSE IF token.sig # hmac(key, token.payload) THEN [err |-> "InvalidSignatureError"]
  ELSE IF token.payload.iat > now THEN [err |-> "ImmatureSignatureError"]
  ELSE IF token.payload.exp <= now THEN [err |-> "ExpiredSignatureError"]
  ELSE [err |-> "", payload |-> token.payload]

\* (mutant) the liveness filter is dropped
QueryByIdActive_NoFilter(key_id) ==
  LET rows == {r \in api_keys : r.id = key_id}
  IN  IF rows = {} THEN None ELSE CHOOSE r \in rows : TRUE

QueryByIdActive(key_id) ==
  LET rows == {r \in api_keys : r.id = key_id /\ r.is_active = TRUE}
  IN  IF rows = {} THEN None ELSE CHOOSE r \in rows : TRUE

\* a create_token that does not look at the key
create_token_NoCheck(api_key_id, expires_in) ==
  LET payload == [sub |-> api_key_id, name |-> <<"alice">>, iat |-> now,
                  exp |-> now + expires_in, jti |-> Len(tokens) + 1, type |-> "access"]
  IN  [err |-> "", access_token |-> jwt_encode(payload, secret_key),
       token_type |-> "bearer", expires_in |-> expires_in,
       expires_at |-> now + expires_in, api_key_id |-> api_key_id,
       api_key_name |-> <<"alice">>]

\* TokenManager.create_token; the jti is a fresh random value
create_token(api_key_id, expires_in) ==
  LET api_key == QueryById(api_key_id)
  IN  IF api_key = None \/ ~api_key.is_active THEN [err |-> "ValueError"]
      ELSE LET payload == [sub |-> api_key_id, name |-> api_key.name, iat |-> now,
                           exp |-> now + expires_in, jti |-> Len(tokens) + 1,
                           type |-> "access"]
           IN  [err |-> "",
                access_token |-> jwt_encode(payload, secret_key),
                token_type |-> "bearer",
                expires_in |-> expires_in,
                expires_at |-> now + expires_in,
                api_key_id |-> api_key_id,
                api_key_name |-> api_key.name]

\* a verify_token that accepts only the newest token issued for a key
verify_token_LatestOnly(token) ==
  LET d == jwt_decode(token, secret_key)
  IN  IF d.err # "" THEN None
      ELSE LET api_key == QueryByIdActive(d.payload.sub)
           IN  IF api_key = None THEN None
               ELSE IF \E i \in 1..Len(tokens) :
                         /\ tokens[i].payload.sub = d.payload.sub
                         /\ tokens[i].payload.jti > d.payload.jti
               THEN None
               ELSE [api_key_id |-> d.payload.sub,
                     api_key_name |-> d.payload.name,
                     token_id |-> d.payload.jti,
                     issued_at |-> d.payload.iat,
                     expires_at |-> d.payload.exp,
                     api_key_record |-> api_key]

\* TokenManager.verify_token
verify_token(token) ==
  LET d == jwt_decode(token, secret_key)
  IN  IF d.err # "" THEN None
      ELSE LET api_key == QueryByIdActive(d.payload.sub)
           IN  IF api_key = None THEN None
               ELSE [api_key_id |-> d.payload.sub,
                     api_key_name |-> d.payload.name,
                     token_id |-> d.payload.jti,
                     issued_at |-> d.payload.iat,
                     expires_at |-> d.payload.exp,
                     api_key_record |-> api_key]

\* a refresh that keeps the lifetime of the old token
refresh_token_KeepsTTL(old_token) ==
  LET token_data == verify_token(old_token)
  IN  IF token_data = None THEN None
      ELSE create_token(token_data.api_key_id, token_data.expires_at - token_data.issued_at)

\* TokenManager.refresh_token
refresh_token(old_token) ==
  LET token_data == verify_token(old_token)
  IN  IF token_data = None THEN None
      ELSE create_token(token_data.api_key_id, default_expiry)

\* TokenManager.revoke_token
revoke_token(token) == verify_token(token) # None

\* a token exchange without the validation of TokenRequest
TokenExchange_Unvalidated(api_key, hours) ==
  /\ Len(tokens) < MaxTokens
  /\ LET v == verify_api_key(api_key, FALSE, FALSE)
     IN  IF v.record = None
         THEN /\ resp' = [op |-> "token", api_key |-> api_key, code |-> 401,
                          hours |-> hours, data |-> None]
              /\ UNCHANGED <<api_keys, tokens>>
         ELSE LET token_data == create_token(v.record.id, hours * SecondsPerHour)
              IN  /\ SumUsage(api_keys) < MaxUsage
                  /\ api_keys' = increment_usage(api_keys, v.record)
                  /\ tokens' = Append(tokens, token_data.access_token)
                  /\ resp' = [op |-> "token", api_key |-> api_key, code |-> 200,
                              hours |-> hours, data |-> token_data]
  /\ UNCHANGED <<redis, now, ticks, nkeys, issued, sessions, gatewayVars>>

\* POST /auth/token: create_token.  The key manager of
\* this handler has no Redis.
TokenExchange(api_key, hours) ==
  /\ Len(tokens) < MaxTokens
  /\ IF hours < MinHours \/ hours > MaxHours
     THEN /\ resp' = [op |-> "token", api_key |-> api_key, code |-> 422, hours |-> hours, data |-> None]
          /\ UNCHANGED <<api_keys, tokens>>
     ELSE LET v == verify_api_key(api_key, FALSE, FALSE)
          IN  IF v.record = None
              THEN /\ resp' = [op |-> "token", api_key |-> api_key, code |-> 401, hours |-> hours, data |-> None]
                   /\ UNCHANGED <<api_keys, tokens>>
              ELSE IF ~v.record.is_active
              THEN /\ resp' = [op |-> "token", api_key |-> api_key, code |-> 401, hours |-> hours, data |-> None]
                   /\ UNCHANGED <<api_keys, tokens>>
              ELSE LET token_data == create_token(v.record.id, hours * SecondsPerHour)
                   IN  IF token_data.err # ""
                       THEN /\ resp' = [op |-> "token", api_key |-> api_key, code |-> 500, hours |-> hours,
                                        data |-> None]
                            /\ UNCHANGED <<api_keys, tokens>>
                       ELSE /\ SumUsage(api_keys) < MaxUsage
                            /\ api_keys' = increment_usage(api_keys, v.record)
                            /\ tokens' = Append(tokens, token_data.access_token)
                            /\ resp' = [op |-> "token", api_key |-> api_key, code |-> 200, hours |-> hours,
                                        data |-> token_data]
  /\ UNCHANGED <<redis, now, ticks, nkeys, issued, sessions, gatewayVars>>

\* POST /auth/token/form: create_token_form.  TokenRequest is constructed in
\* the handler, so a value out of range raises there and FastAPI answers 500.
TokenExchangeForm(api_key, hours) ==
  IF hours < MinHours \/ hours > MaxHours
  THEN /\ Len(tokens) < MaxTokens
       /\ resp' = [op |-> "token", api_key |-> api_key, code |-> 500, hours |-> hours, data |-> None]
       /\ UNCHANGED <<api_keys, tokens>>
       /\ UNCHANGED <<redis, now, ticks, nkeys, issued, sessions, gatewayVars>>
  ELSE TokenExchange(api_key, hours)

\* what POST /auth/verify answers for a token
VerifyOutcome(token) ==
  LET token_data == verify_token(token)
  IN  IF token_data = None
      THEN [code |-> 401, detail |-> "Invalid or expired token", data |-> None]
      ELSE [code |-> 200, detail |-> "Token is valid", data |-> token_data]

\* POST /auth/verify: verify_token
TokenVerify(token) ==
  /\ LET outcome == VerifyOutcome(token)
     IN  resp' = [op |-> "token_verify", code |-> outcome.code,
                  token |-> token, data |-> outcome.data]
  /\ UNCHANGED <<api_keys, redis, now, ticks, nkeys, issued, tokens, sessions, gatewayVars>>

\* POST /auth/refresh: refresh_token
TokenRefresh(token) ==
  /\ Len(tokens) < MaxTokens
  /\ LET new_token_data == refresh_token(token)
     IN  IF new_token_data = None
         THEN /\ resp' = [op |-> "token_refresh", code |-> 401, token |-> token,
                          data |-> None]
              /\ UNCHANGED tokens
         ELSE IF new_token_data.err # ""
         THEN /\ resp' = [op |-> "token_refresh", code |-> 500, token |-> token,
                          data |-> None]
              /\ UNCHANGED tokens
         ELSE /\ tokens' = Append(tokens, new_token_data.access_token)
              /\ resp' = [op |-> "token_refresh", code |-> 200, token |-> token,
                          data |-> new_token_data]
  /\ UNCHANGED <<api_keys, redis, now, ticks, nkeys, issued, sessions, gatewayVars>>

\* a revocation that deactivates the key of the token
TokenRevoke_DeactivatesKey(token) ==
  /\ resp' = [op |-> "token_revoke",
              code |-> IF revoke_token(token) THEN 200 ELSE 401,
              token |-> token, data |-> None]
  /\ api_keys' = {IF revoke_token(token) /\ r.id = token.payload.sub
                   THEN [r EXCEPT !.is_active = FALSE] ELSE r : r \in api_keys}
  /\ UNCHANGED <<redis, now, ticks, nkeys, issued, tokens, sessions, gatewayVars>>

\* DELETE /auth/revoke: revoke_token
TokenRevoke(token) ==
  /\ resp' = [op |-> "token_revoke",
              code |-> IF revoke_token(token) THEN 200 ELSE 401,
              token |-> token, data |-> None]
  /\ UNCHANGED <<api_keys, redis, now, ticks, nkeys, issued, tokens, sessions, gatewayVars>>

-----------------------------------------------------------------------------
(* providers/clients.py: ClientManager *)

Providers == <<"openai", "gemini", "groq">>

FullModels(p) ==
  CASE p = "openai" -> <<"gpt-4", "gpt-4-turbo", "gpt-4o", "gpt-4o-mini",
                         "gpt-3.5-turbo", "gpt-3.5-turbo-16k">>
    [] p = "gemini" -> <<"gemini-1.5-pro", "gemini-1.5-flash", "gemini-pro">>
    [] p = "groq"   -> <<"llama3-8b-8192", "llama3-70b-8192", "mixtral-8x7b-32768",
                         "gemma-7b-it", "llama2-70b-4096">>

MinimalModels(p) ==
  CASE p = "openai" -> <<"gpt-3.5-turbo", "gpt-4">>
    [] p = "gemini" -> <<"gemini-pro">>
    [] p = "groq"   -> <<"llama3-8b-8192">>

InSeq(x, q) == \E i \in 1..Len(q) : q[i] = x

\* What the set-up of one provider may come to: its API key is not set
\* ("unset"), the client is built ("ok"), the first construction raises and the
\* minimal one succeeds ("minimal"), both raise ("failed")
SetupOutcomes == {"unset", "ok", "minimal", "failed"}

RECURSIVE LastProvider(_, _, _, _)
\* the provider that the loop of lines 114-117 leaves for a model: the last
\* one, in insertion order, that lists it
LastProvider(model, order, pm, i) ==
  IF i = 0 THEN ""
  ELSE IF InSeq(model, pm[order[i]]) THEN order[i]
  ELSE LastProvider(model, order, pm, i - 1)

\* __init__, lines 12-14: no client, no model list, no index
EmptyRegistry ==
  [clients |-> {}, order |-> << >>, provider_models |-> << >>,
   model_to_provider |-> << >>]

\* self.clients[p] = AsyncOpenAI(...) followed by self.provider_models[p] = models
Register(reg, p, models) ==
  [reg EXCEPT !.clients = @ \cup {p},
              !.order = IF p \in DOMAIN reg.provider_models THEN @ ELSE Append(@, p),
              !.provider_models = (p :> models) @@ @]

\* a block that sets the minimal model list before it constructs the client,
\* so that the list stays when the construction raises
SetupProvider_ListFirst(reg, p, outcome) ==
  IF outcome = "ok" THEN Register(reg, p, FullModels(p))
  ELSE IF outcome = "minimal" THEN Register(reg, p, MinimalModels(p))
  ELSE IF outcome = "failed"
  THEN [reg EXCEPT !.order = Append(@, p),
                   !.provider_models = (p :> MinimalModels(p)) @@ @]
  ELSE reg

\* the block of one provider (lines 28-55, 58-83, 86-112): nothing when its key
\* is not set; the client and the full list; after a failure the client and the
\* minimal list; nothing when that fails too
SetupProvider(reg, p, outcome) ==
  IF outcome = "ok" THEN Register(reg, p, FullModels(p))
  ELSE IF outcome = "minimal" THEN Register(reg, p, MinimalModels(p))
  ELSE reg

RECURSIVE SetupProviders(_, _, _)
\* the blocks of the first i providers, in the order of the code
SetupProviders(reg, cfg, i) ==
  IF i = 0 THEN reg
  ELSE SetupProvider(SetupProviders(reg, cfg, i - 1), Providers[i], cfg[Providers[i]])

\* lines 114-117: the flattened index, built from provider_models in
\* insertion order
BuildIndex(reg) ==
  LET pm == reg.provider_models
      known == UNION {{pm[p][i] : i \in 1..Len(pm[p])} : p \in DOMAIN pm}
  IN  [reg EXCEPT !.model_to_provider =
         [m \in known |-> LastProvider(m, reg.order, pm, Len(reg.order))]]

\* setup_clients under the outcomes cfg
setup_clients(cfg) == BuildIndex(SetupProviders(EmptyRegistry, cfg, Len(Providers)))

\* get_available_models: the model lists of the providers that have a client
get_available_models ==
  [p \in {q \in DOMAIN registry.provider_models : q \in registry.clients}
     |-> registry.provider_models[p]]

\* provider_models.get(provider, [])
ProviderModels(provider) ==
  IF provider \in DOMAIN registry.provider_models
  THEN registry.provider_models[provider] ELSE << >>

\* the models of one provider only
KnownModels_FirstProvider ==
  IF registry.order = << >> THEN {}
  ELSE {registry.provider_models[registry.order[1]][i] :
          i \in 1..Len(registry.provider_models[registry.order[1]])}

\* list(model_to_provider.keys()), as a set
KnownModels == DOMAIN registry.model_to_provider

\* a resolution that falls back on some configured provider
get_client_for_model_Fallback(model, preferred_provider) ==
  [code |-> 200, provider |-> CHOOSE p \in registry.clients : TRUE, detail |-> "ok",
   available |-> {}]

\* ClientManager.get_client_for_model: the provider, or the HTTP 400 raised
get_client_for_model(model, preferred_provider) ==
  IF preferred_provider # ""
  THEN IF preferred_provider \in registry.clients
       THEN IF InSeq(model, ProviderModels(preferred_provider))
            THEN [code |-> 200, provider |-> preferred_provider, detail |-> "ok",
                  available |-> {}]
            ELSE [code |-> 400, provider |-> "",
                  detail |-> "Model not available for provider",
                  available |-> {ProviderModels(preferred_provider)}]
       ELSE [code |-> 400, provider |-> "",
             detail |-> "Provider not configured or available", available |-> {}]
  ELSE LET provider == IF model \in DOMAIN registry.model_to_provider
                       THEN registry.model_to_provider[model] ELSE ""
       IN  IF provider # "" /\ provider \in registry.clients
           THEN [code |-> 200, provider |-> provider, detail |-> "ok", available |-> {}]
           ELSE [code |-> 400, provider |-> "", detail |-> "Model not available",
                 available |-> {KnownModels}]

-----------------------------------------------------------------------------
(* api/chat.py: the completion endpoint *)

\* the table pricing of calculate_cost: dollars per 1000 tokens, in units of
\* 0.0001 dollar
pricing ==
  [openai |-> ("gpt-4" :> 300 @@ "gpt-4-turbo" :> 100 @@ "gpt-4o" :> 50
                 @@ "gpt-4o-mini" :> 15 @@ "gpt-3.5-turbo" :> 15),
   groq   |-> ("default" :> 1),
   gemini |-> ("default" :> 10)]

\* the rate of line 222 when neither the model nor "default" is in the table
GlobalDefault == 10

\* dict.get(key, default)
Get(dict, key, default) == IF key \in DOMAIN dict THEN dict[key] ELSE default

\* a lookup that goes from the model straight to the global default
CostPer1k_NoProviderDefault(provider, model) ==
  Get(Get(pricing, provider, << >>), model, GlobalDefault)

\* cost_per_1k of calculate_cost (lines 221-222)
CostPer1k(provider, model) ==
  LET provider_pricing == Get(pricing, provider, << >>)
  IN  Get(provider_pricing, model, Get(provider_pricing, "default", GlobalDefault))

\* calculate_cost: (total_tokens / 1000) * cost_per_1k, in units of 1e-7 dollar
calculate_cost(provider, model, usage) == usage.total_tokens * CostPer1k(provider, model)

\* a log_usage that lets its failures out
log_usage_Raises(logs, api_key_id, provider, model, usage, dbok) ==
  [raised |-> usage = None \/ ~dbok, logs |-> logs]

\* a log_usage that adds the row twice
log_usage_Twice(logs, api_key_id, provider, model, usage, dbok) ==
  LET row == [id |-> Len(logs) + 1, api_key_id |-> api_key_id, provider |-> provider,
              model |-> model, endpoint |-> "/v1/chat/completions",
              tokens_used |-> usage.total_tokens,
              prompt_tokens |-> usage.prompt_tokens,
              completion_tokens |-> usage.completion_tokens,
              cost |-> calculate_cost(provider, model, usage)]
  IN  IF usage = None \/ ~dbok
      THEN [raised |-> FALSE, logs |-> logs]
      ELSE [raised |-> FALSE, logs |-> logs \o <<row, [row EXCEPT !.id = @ + 1]>>]

\* log_usage: the table afterwards.  Building the row raises when usage is
\* None and the commit raises when dbok is false; both are caught and logged.
log_usage(logs, api_key_id, provider, model, usage, dbok) ==
  IF usage = None \/ ~dbok
  THEN [raised |-> FALSE, logs |-> logs]
  ELSE [raised |-> FALSE,
        logs |-> Append(logs,
          [id |-> Len(logs) + 1, api_key_id |-> api_key_id, provider |-> provider,
           model |-> model, endpoint |-> "/v1/chat/completions",
           tokens_used |-> usage.total_tokens,
           prompt_tokens |-> usage.prompt_tokens,
           completion_tokens |-> usage.completion_tokens,
           cost |-> calculate_cost(provider, model, usage)])]

\* what the stream yields to the caller
DataChunk(chunk, provider) == [kind |-> "data", id |-> chunk.id, provider |-> provider]
DoneChunk == [kind |-> "done", id |-> 0, provider |-> ""]
ErrorChunk == [kind |-> "error", id |-> 0, provider |-> ""]

\* what became of the usage row: "written", or "failed" when no row was added
Persisted(l, logs) == IF l.logs = logs THEN "failed" ELSE "written"

\* no request is in the handler
Settled == req.pc \in {"idle", "done", "closed"}

\* A request arrives and the dependency get_current_api_key runs (line 29)
ChatAuth(cred, up, db, model, provider, stream) ==
  /\ Settled
  /\ LET a == Authenticate(cred, up, up, db)
         r == [IdleReq EXCEPT !.cred = cred, !.model = model, !.provider = provider,
                              !.stream = stream, !.log0 = Len(usage_logs)]
     IN  /\ UsageRoom(a)
         /\ api_keys' = a.keys
         /\ redis' = a.redis
         /\ req' = IF a.code # 200
                   THEN [r EXCEPT !.pc = "done", !.code = a.code, !.detail = a.detail]
                   ELSE [r EXCEPT !.pc = "resolve", !.key_id = a.record.id]
  /\ UNCHANGED <<now, ticks, nkeys, issued, resp, tokens, sessions, registry, usage_logs>>

\* lines 36-38: the client is resolved, or HTTP 400 leaves the handler
ChatResolve ==
  /\ req.pc = "resolve"
  /\ LET c == get_client_for_model(req.model, req.provider)
     IN  req' = IF c.code # 200
                THEN [req EXCEPT !.pc = "done", !.code = c.code, !.detail = c.detail]
                ELSE [req EXCEPT !.pc = "invoke", !.resolved = c.provider]
  /\ UNCHANGED <<api_keys, redis, now, ticks, nkeys, issued, resp, tokens, sessions,
                 registry, usage_logs>>

\* a handler that lets the failure of the upstream call out: the answer is
\* the 500 of internal_error_handler
ChatInvoke_Escapes(ok, usage, content, error) ==
  /\ req.pc = "invoke"
  /\ req' = IF ok
            THEN [req EXCEPT !.pc = IF req.stream THEN "iter" ELSE "log",
                             !.code = IF req.stream THEN 200 ELSE @,
                             !.calls = @ + 1, !.usage = IF req.stream THEN @ ELSE usage,
                             !.content = IF req.stream THEN @ ELSE content]
            ELSE [req EXCEPT !.pc = "done", !.calls = @ + 1, !.code = 500,
                             !.detail = internal_error_handler.error.message,
                             !.raised = error]
  /\ UNCHANGED <<api_keys, redis, now, ticks, nkeys, issued, resp, tokens, sessions,
                 registry, usage_logs>>

\* line 67, or line 111 for a stream: client.chat.completions.create returns
\* (ok) a response with this usage and this content of its message, or raises
\* an exception whose str() is error; lines 103-105 answer
\* 500 f"Chat completion failed: {str(e)}", detail and message here
ChatInvoke(ok, usage, content, error) ==
  /\ req.pc = "invoke"
  /\ req' = IF req.stream
            THEN IF ok
                 THEN [req EXCEPT !.pc = "iter", !.code = 200, !.calls = @ + 1,
                                  !.total_tokens = 0]
                 ELSE [req EXCEPT !.pc = "done", !.code = 200, !.calls = @ + 1,
                                  !.out = Append(@, ErrorChunk), !.raised = error]
            ELSE IF ok
                 THEN [req EXCEPT !.pc = "log", !.calls = @ + 1, !.usage = usage,
                                  !.content = content]
                 ELSE [req EXCEPT !.pc = "done", !.calls = @ + 1, !.code = 500,
                                  !.detail = "Chat completion failed",
                                  !.raised = error, !.message = error]
  /\ UNCHANGED <<api_keys, redis, now, ticks, nkeys, issued, resp, tokens, sessions,
                 registry, usage_logs>>

\* str() of the AttributeError that line 95 raises when response.usage is None
NoUsageMessage == "'NoneType' object has no attribute 'prompt_tokens'"

\* str() of the ValidationError that lines 87-89 raise when the content of the
\* message is None: ChatMessage (schemas.py) takes a string only
NoContentMessage == "1 validation error for ChatMessage"

\* lines 79-99: what building ChatCompletionResponse raises, "" when nothing;
\* the choices are built before the usage is read
ResponseError(usage, content) ==
  IF content = None THEN NoContentMessage
  ELSE IF usage = None THEN NoUsageMessage
  ELSE ""

\* lines 70-99: the usage is logged, then the response is built
ChatLog(dbok) ==
  /\ req.pc = "log"
  /\ LET l == log_usage(usage_logs, req.key_id, req.resolved, req.model, req.usage, dbok)
         e == ResponseError(req.usage, req.content)
     IN  /\ usage_logs' = l.logs
         /\ req' = IF l.raised \/ e # ""
                   THEN [req EXCEPT !.pc = "done", !.code = 500,
                                    !.detail = "Chat completion failed",
                                    !.message = IF e # "" THEN e ELSE "log_usage raised",
                                    !.persist = Persisted(l, usage_logs)]
                   ELSE [req EXCEPT !.pc = "done", !.code = 200, !.detail = "ok",
                                    !.persist = Persisted(l, usage_logs)]
  /\ UNCHANGED <<api_keys, redis, now, ticks, nkeys, issued, resp, tokens, sessions,
                 registry>>

\* lines 116-137: a chunk is sent to the caller when it has choices
Forward(out, chunk, provider) ==
  IF chunk.choices THEN Append(out, DataChunk(chunk, provider)) ELSE out

\* lines 116 and 140-141: the usage of a chunk that has choices is kept
Capture(total_tokens, chunk) ==
  IF chunk.choices /\ chunk.usage # None THEN chunk.usage.total_tokens
  ELSE total_tokens

\* lines 115-137: the upstream stream delivers its next chunk; one that has
\* choices is yielded to the caller and the generator is suspended there, one
\* that has none is passed over
StreamChunk(choices, usage) ==
  /\ req.pc = "iter"
  /\ Len(req.received) < MaxChunks
  /\ LET chunk == [id |-> Len(req.received) + 1, choices |-> choices, usage |-> usage]
     IN  req' = [req EXCEPT !.pc = IF chunk.choices THEN "yield" ELSE "iter",
                            !.received = Append(@, chunk),
                            !.out = Forward(@, chunk, req.resolved)]
  /\ UNCHANGED <<api_keys, redis, now, ticks, nkeys, issued, resp, tokens, sessions,
                 registry, usage_logs>>

\* lines 139-141: the caller asks for more, the generator goes on after the
\* yield and keeps the usage of the chunk it sent
StreamResume ==
  /\ req.pc = "yield"
  /\ req' = [req EXCEPT !.pc = "iter",
                        !.total_tokens = Capture(@, req.received[Len(req.received)])]
  /\ UNCHANGED <<api_keys, redis, now, ticks, nkeys, issued, resp, tokens, sessions,
                 registry, usage_logs>>

\* the stream ends on a failure without a word
StreamRaise_Silent ==
  /\ req.pc = "iter"
  /\ req' = [req EXCEPT !.pc = "done"]
  /\ UNCHANGED <<api_keys, redis, now, ticks, nkeys, issued, resp, tokens, sessions,
                 registry, usage_logs>>

\* an error path that records the usage captured so far
StreamRaise_LogsPartial ==
  /\ req.pc = "iter"
  /\ LET usage == [total_tokens |-> req.total_tokens, prompt_tokens |-> 0,
                   completion_tokens |-> req.total_tokens]
     IN  usage_logs' = IF req.total_tokens > 0
                       THEN log_usage(usage_logs, req.key_id, req.resolved, req.model,
                                      usage, TRUE).logs
                       ELSE usage_logs
  /\ req' = [req EXCEPT !.pc = "done", !.out = Append(@, ErrorChunk)]
  /\ UNCHANGED <<api_keys, redis, now, ticks, nkeys, issued, resp, tokens, sessions,
                 registry>>

\* line 115 raises, lines 160-162 yield the error
StreamRaise ==
  /\ req.pc = "iter"
  /\ req' = [req EXCEPT !.pc = "done", !.out = Append(@, ErrorChunk)]
  /\ UNCHANGED <<api_keys, redis, now, ticks, nkeys, issued, resp, tokens, sessions,
                 registry, usage_logs>>

\* the upstream stream ends, line 144 yields the sentinel
StreamEnd ==
  /\ req.pc = "iter"
  /\ req' = [req EXCEPT !.pc = "sentinel", !.out = Append(@, DoneChunk)]
  /\ UNCHANGED <<api_keys, redis, now, ticks, nkeys, issued, resp, tokens, sessions,
                 registry, usage_logs>>

\* lines 147-158: the caller reads on, the usage is logged, the stream is over
StreamLog(dbok) ==
  /\ req.pc = "sentinel"
  /\ LET usage == [total_tokens |-> req.total_tokens, prompt_tokens |-> 0,
                   completion_tokens |-> req.total_tokens]
         l == IF req.total_tokens > 0
              THEN log_usage(usage_logs, req.key_id, req.resolved, req.model, usage, dbok)
              ELSE [raised |-> FALSE, logs |-> usage_logs]
         persist == IF req.total_tokens > 0 THEN Persisted(l, usage_logs) ELSE ""
     IN  /\ usage_logs' = l.logs
         /\ req' = IF l.raised
                   THEN [req EXCEPT !.pc = "done", !.out = Append(@, ErrorChunk),
                                    !.persist = persist]
                   ELSE [req EXCEPT !.pc = "done", !.persist = persist]
  /\ UNCHANGED <<api_keys, redis, now, ticks, nkeys, issued, resp, tokens, sessions,
                 registry>>

\* The caller goes away: the generator is closed where it is suspended, at the
\* await of create (line 111), at the async for (line 115) or at a yield; the
\* CancelledError or GeneratorExit passes `except Exception` (line 160).  A
\* caller that is gone when the response starts ends the request before the
\* generator runs its first line: started says whether create was called
StreamDisconnect(started) ==
  /\ \/ req.pc \in {"iter", "yield", "sentinel"} /\ started
     \/ req.pc = "invoke" /\ req.stream
  /\ req' = IF req.pc = "invoke"
            THEN [req EXCEPT !.pc = "closed", !.code = 200,
                             !.calls = IF started THEN @ + 1 ELSE @]
            ELSE [req EXCEPT !.pc = "closed"]
  /\ UNCHANGED <<api_keys, redis, now, ticks, nkeys, issued, resp, tokens, sessions,
                 registry, usage_logs>>

-----------------------------------------------------------------------------
(* The inputs *)

\* the secrets presented: every secret generated so far, the next one to be
\* generated, and corruptions of the first (a character appended, the prefix cut)
Secrets ==
  {generate_api_key(n).key : n \in 1..(nkeys + 1)}
    \cup {generate_api_key(1).key \o <<Atom("x", 0)>>, <<RandAtom(1)>>}

\* the headers of a request: a secret as a Bearer value or in the vendor header
Bearer(s) == [authorization |-> <<BearerAtom>> \o s, x_api_key |-> NoStr]
Vendor(s) == [authorization |-> NoStr, x_api_key |-> s]
Direct(s) == [authorization |-> s, x_api_key |-> NoStr]
NoCredential == [authorization |-> NoStr, x_api_key |-> NoStr]

Requests ==
  {Bearer(generate_api_key(n).key) : n \in 1..(nkeys + 1)}
    \cup {Vendor(generate_api_key(1).key), NoCredential}

\* the keys whose secret a caller holds
KeyIds == DOMAIN issued

Steps == {CacheTTL}

\* every provider is configured and its client is built
DefaultSetup == [p \in {"openai", "gemini", "groq"} |-> "ok"]

Init == InitKeys /\ registry = setup_clients(DefaultSetup)

Next ==
  \/ \E name \in Names, description \in Descriptions, setok \in BOOLEAN,
          db \in CreateOutcomes :
       CreateKey(name, description, setok, db)
  \/ \E key \in Secrets, getok \in BOOLEAN, setok \in BOOLEAN :
       (setok => getok) /\ VerifyKey(key, getok, setok)
  \/ \E cred \in Requests, up \in BOOLEAN : GetCurrentKeyDepends(2, cred, up, up, "ok")
  \/ GetCurrentKey(2)
  \/ \E id \in KeyIds : DeleteKeyDepends(1, id, Bearer(issued[id]), FALSE, FALSE, "ok")
  \/ \E dbok \in BOOLEAN : DeleteKey(1, dbok)
  \/ \E d \in Steps : Tick(d)

Spec == Init /\ [][Next]_vars

-----------------------------------------------------------------------------
(* The token endpoints, with the key endpoints they depend on; Redis is off *)

\* the tokens presented: every token issued, the first one signed with another
\* key, the first one with its expiry edited, and a string that is no JWT
Forged(t) == jwt_encode(t.payload, "attacker-key")
Tampered(t) == [t EXCEPT !.payload.exp = @ + default_expiry]
Garbage == [garbage |-> TRUE]

IssuedTokens == {tokens[i] : i \in 1..Len(tokens)}

TokenInputs ==
  IssuedTokens \cup {Garbage}
    \cup (IF tokens = << >> THEN {} ELSE {Forged(tokens[1]), Tampered(tokens[1])})

HourInputs == {0, 1, 169}

FormHourInputs == {0, 1, 169}

TokenSteps == {SecondsPerHour}

NextTokens ==
  \/ \E name \in {<<"alice">>} : CreateKey(name, Description(NoStr), TRUE, "ok")
  \/ \E id \in KeyIds : DeleteKeyDepends(1, id, Bearer(issued[id]), FALSE, FALSE, "ok")
  \/ \E dbok \in BOOLEAN : DeleteKey(1, dbok)
  \/ \E n \in 1..(nkeys + 1), hours \in HourInputs : TokenExchange(generate_api_key(n).key, hours)
  \/ \E n \in 1..(nkeys + 1), hours \in FormHourInputs :
       TokenExchangeForm(generate_api_key(n).key, hours)
  \/ \E t \in TokenInputs : TokenVerify(t)
  \/ \E t \in TokenInputs : TokenRefresh(t)
  \/ \E t \in TokenInputs : TokenRevoke(t)
  \/ \E d \in TokenSteps : Tick(d)

SpecTokens == Init /\ [][NextTokens]_vars

-----------------------------------------------------------------------------
(* Concurrent authenticated requests *)

NextConcurrent ==
  \/ \E name \in Names, setok \in BOOLEAN : CreateKey(name, Description(NoStr), setok, "ok")
  \/ \E i \in 1..MaxSessions, id \in KeyIds, up \in BOOLEAN :
       ReqVerify(i, Bearer(issued[id]), up)
  \/ \E i \in 1..MaxSessions : ReqIncrement(i)

SpecConcurrent == Init /\ [][NextConcurrent]_vars

-----------------------------------------------------------------------------
(* The completion gateway: keys, tokens, and one completion request at a time
   from its authentication to its response *)

\* the bearer string of a signed token
JwtString(token) == <<Atom("jwt", token.payload.jti)>>

GatewaySetups ==
  {DefaultSetup,
   [p \in {"openai", "gemini", "groq"} |->
      CASE p = "openai" -> "minimal" [] p = "gemini" -> "unset" [] OTHER -> "failed"]}

ChatCredentials ==
  {Bearer(issued[id]) : id \in KeyIds}
    \cup {Bearer(generate_api_key(nkeys + 1).key), NoCredential}
    \cup {Bearer(JwtString(t)) : t \in IssuedTokens}

\* the model and the provider a request names ("" when it names no provider)
ChatTargets ==
  {[model |-> "gpt-4", provider |-> ""], [model |-> "gpt-4", provider |-> "groq"],
   [model |-> "llama3-8b-8192", provider |-> "groq"],
   [model |-> "no-such-model", provider |-> ""]}

\* usage of an upstream response: the figures the provider reports, or None
ResponseUsage == [prompt_tokens |-> 5, completion_tokens |-> 7, total_tokens |-> 12]
\* content of the message of an upstream response: a text, or None
MessageContent == [text |-> <<Atom("Hello", 0)>>]
UpstreamResults ==
  {[ok |-> TRUE, usage |-> ResponseUsage, content |-> MessageContent, error |-> ""],
   [ok |-> TRUE, usage |-> ResponseUsage, content |-> None, error |-> ""],
   [ok |-> TRUE, usage |-> None, content |-> MessageContent, error |-> ""],
   [ok |-> FALSE, usage |-> None, content |-> None, error |-> "Connection error."]}

\* an upstream call that the provider refuses
UpstreamRefusals ==
  {[ok |-> FALSE, usage |-> None, content |-> None, error |-> "Error code: 429"]}

\* usage of the n-th chunk of a stream: none, or the tokens so far
ChunkUsage(n) == [prompt_tokens |-> 0, completion_tokens |-> 10 * n, total_tokens |-> 10 * n]
ChunkUsages == {None, ChunkUsage(Len(req.received) + 1)}

InitGateway == InitKeys /\ \E cfg \in GatewaySetups : registry = setup_clients(cfg)

NextGateway ==
  \/ \E name \in {<<"alice">>} : CreateKey(name, Description(NoStr), FALSE, "ok")
  \/ \E id \in KeyIds : DeleteKeyDepends(1, id, Bearer(issued[id]), FALSE, FALSE, "ok")
  \/ DeleteKey(1, TRUE)
  \/ \E id \in KeyIds : tokens = << >> /\ TokenExchange(issued[id], MinHours)
  \/ \E cred \in ChatCredentials, t \in ChatTargets, stream \in BOOLEAN :
       ChatAuth(cred, FALSE, "ok", t.model, t.provider, stream)
  \/ ChatResolve
  \/ \E u \in UpstreamResults : ChatInvoke(u.ok, u.usage, u.content, u.error)
  \/ \E dbok \in BOOLEAN : ChatLog(dbok)
  \/ StreamRaise
  \/ StreamEnd
  \/ \E dbok \in BOOLEAN : StreamLog(dbok)
  \/ \E started \in BOOLEAN : StreamDisconnect(started)

SpecGateway == InitGateway /\ [][NextGateway]_vars

-----------------------------------------------------------------------------
(* Completions of one key, streamed or not, with the chunks of the stream *)

NextStream ==
  \/ \E name \in {<<"alice">>} : CreateKey(name, Description(NoStr), FALSE, "ok")
  \/ \E stream \in BOOLEAN :
       nkeys > 0 /\ ChatAuth(Bearer(issued[KeyId(1)]), FALSE, "ok", "gpt-4", "", stream)
  \/ ChatResolve
  \/ \E u \in UpstreamResults \cup UpstreamRefusals : ChatInvoke(u.ok, u.usage, u.content, u.error)
  \/ \E dbok \in BOOLEAN : ChatLog(dbok)
  \/ \E choices \in BOOLEAN, usage \in ChunkUsages : StreamChunk(choices, usage)
  \/ StreamResume
  \/ StreamRaise
  \/ StreamEnd
  \/ \E dbok \in BOOLEAN : StreamLog(dbok)
  \/ \E started \in BOOLEAN : StreamDisconnect(started)

SpecStream == Init /\ [][NextStream]_vars

-----------------------------------------------------------------------------
(* The registry: every outcome of the set-up, and the resolution of a model *)

AllSetups == [{"openai", "gemini", "groq"} -> SetupOutcomes]

ResolveModels ==
  UNION {{FullModels(p)[i] : i \in 1..Len(FullModels(p))} : p \in {"openai", "gemini", "groq"}}
    \cup {"no-such-model"}

ResolveProviders == {"", "openai", "gemini", "groq", "azure"}

\* client_manager.get_client_for_model(model, preferred_provider)
Resolve(model, preferred_provider) ==
  /\ resp' = [op |-> "resolve", model |-> model, preferred |-> preferred_provider,
              result |-> get_client_for_model(model, preferred_provider)]
  /\ UNCHANGED <<api_keys, redis, now, ticks, nkeys, issued, tokens, sessions,
                 registry, usage_logs, req>>

\* the providers and models that usage is costed for: those of the table, a
\* provider that is not in it, and models that are in no list
CostProviders == {"openai", "gemini", "groq", "azure"}
CostModels == ResolveModels \cup {"default"}
CostTokens == {0, 12, 1000}

\* calculate_cost(provider, model, usage)
Cost(provider, model, total_tokens) ==
  /\ resp' = [op |-> "cost", provider |-> provider, model |-> model,
              total_tokens |-> total_tokens, rate |-> CostPer1k(provider, model),
              cost |-> calculate_cost(provider, model,
                         [prompt_tokens |-> 0, completion_tokens |-> total_tokens,
                          total_tokens |-> total_tokens])]
  /\ UNCHANGED <<api_keys, redis, now, ticks, nkeys, issued, tokens, sessions,
                 registry, usage_logs, req>>

InitRegistry == InitKeys /\ \E cfg \in AllSetups : registry = setup_clients(cfg)

NextRegistry ==
  \/ \E model \in ResolveModels, provider \in ResolveProviders : Resolve(model, provider)
  \/ \E provider \in CostProviders, model \in CostModels, total_tokens \in CostTokens :
       Cost(provider, model, total_tokens)

SpecRegistry == InitRegistry /\ [][NextRegistry]_vars

-----------------------------------------------------------------------------
(* The query endpoints (api/auth.py, api/usage.py, api/models.py).  Those of
   api/auth.py and api/models.py depend on get_current_api_key, a plain
   function: the request waits for the thread pool between its dependency and
   its handler, and other requests run in between; the handlers answer from
   the row the dependency loaded after its commit and from the registry.
   Those of api/usage.py depend on verify_api_key itself and run from the
   authentication to the response in one piece.  The responses keep the
   credential presented and the body returned. *)

\* an authenticated request may still be made where requests are counted whole
RequestRoom(a) == a.keys # api_keys => SumUsage(a.keys) <= MaxRequests

\* the schema APIKeyInfo of a key row
APIKeyInfo(api_key) ==
  [id |-> api_key.id, name |-> api_key.name, description |-> api_key.description,
   usage_count |-> api_key.usage_count]

\* A request to a reading endpoint of api/auth.py or api/models.py (op: "list",
\* "models", "providers" or "model") up to its handler: the dependency; a
\* failure is answered at once.  model_id is the path parameter of
\* GET /v1/models/{model_id}
EndpointDepends(i, op, model_id, cred, getok, setok, db) ==
  /\ sessions[i].pc = "start"
  /\ LET a == Authenticate(cred, getok, setok, db)
     IN  /\ RequestRoom(a)
         /\ api_keys' = a.keys
         /\ redis' = a.redis
         /\ IF a.code # 200
            THEN /\ resp' = [op |-> op, cred |-> cred, code |-> a.code,
                             lookup |-> a.lookup, body |-> a.body]
                 /\ UNCHANGED sessions
            ELSE /\ sessions' = [sessions EXCEPT ![i] = Waiting(op, model_id, cred, a)]
                 /\ UNCHANGED resp
  /\ UNCHANGED <<now, ticks, nkeys, issued, tokens, gatewayVars>>

\* the handler of slot i answers with this code and body
EndpointAnswer(i, code, body) ==
  /\ resp' = [op |-> sessions[i].op, cred |-> sessions[i].cred, code |-> code,
              lookup |-> sessions[i].lookup, body |-> body]
  /\ sessions' = [sessions EXCEPT ![i] = FreeSlot]
  /\ UNCHANGED <<api_keys, redis, now, ticks, nkeys, issued, tokens, gatewayVars>>

\* GET /v1/api-keys/, the handler list_api_keys; APIKeyInfo takes a string as
\* description only, and lines 49-52 turn its validation error into a 500
ListKeys(i) ==
  /\ sessions[i].pc = "endpoint" /\ sessions[i].op = "list"
  /\ LET current_key == sessions[i].record
     IN  IF current_key.description = None
         THEN EndpointAnswer(i, 500,
                [detail |-> "Failed to list API keys: 1 validation error for APIKeyInfo"])
         ELSE EndpointAnswer(i, 200, [keys |-> <<APIKeyInfo(current_key)>>])

\* the schema ModelInfo
ModelInfo(model, provider) ==
  [id |-> model, object |-> "model", provider |-> provider, owned_by |-> provider]

RECURSIVE ModelsOf(_, _, _)
\* lines 22-27 of list_models: a ModelInfo for each model of each provider of
\* get_available_models, provider by provider in the order of the registry
ModelsOf(order, available, i) ==
  IF i = 0 THEN << >>
  ELSE LET p == order[i]
           rest == ModelsOf(order, available, i - 1)
       IN  IF p \in DOMAIN available
           THEN rest \o [k \in 1..Len(available[p]) |-> ModelInfo(available[p][k], p)]
           ELSE rest

\* GET /v1/models/, the handler list_models
ListModels(i) ==
  /\ sessions[i].pc = "endpoint" /\ sessions[i].op = "models"
  /\ EndpointAnswer(i, 200,
       [object |-> "list",
        data |-> ModelsOf(registry.order, get_available_models, Len(registry.order))])

\* config.py lines 20-21: the base URLs of the settings
gemini_base_url == "https://generativelanguage.googleapis.com/v1"
groq_base_url == "https://api.groq.com/openai/v1"

\* the base URL the client of the provider was built with: the setting for
\* gemini and groq (clients.py lines 60-61 and 88-89), the default of the
\* client for openai
ClientBaseUrl(provider) ==
  CASE provider = "groq" -> groq_base_url
    [] provider = "gemini" -> gemini_base_url
    [] OTHER -> "https://api.openai.com/v1"

\* the clients of the registry are AsyncOpenAI objects, which set _base_url
\* when they are built
HasBaseUrl == TRUE

\* lines 177-184: the base URL reported for a client: str(client._base_url)
\* when the client has one, the URL the client was built with, which the
\* client keeps with a slash at its end (none of the URLs above has one), and
\* else the fixed URL of the provider
BaseUrl(provider, has_base_url) ==
  IF has_base_url THEN ClientBaseUrl(provider) \o "/"
  ELSE CASE provider = "groq" -> "https://api.groq.com/openai/v1"
         [] provider = "gemini" -> "https://generativelanguage.googleapis.com/v1"
         [] OTHER -> "https://api.openai.com/v1"

\* ClientManager.get_provider_status: an entry for each provider that has a
\* client
get_provider_status ==
  [p \in registry.clients |->
     [enabled |-> TRUE, models |-> ProviderModels(p),
      model_count |-> Len(ProviderModels(p)), base_url |-> BaseUrl(p, HasBaseUrl)]]

\* api/models.py lines 43-49: the schema ProviderInfo of an entry of
\* get_provider_status
ProviderInfo(provider, status) ==
  [name |-> provider, enabled |-> status.enabled, models |-> status.models,
   model_count |-> status.model_count, base_url |-> status.base_url]

\* GET /v1/models/providers, the handler list_providers
ListProviders(i) ==
  /\ sessions[i].pc = "endpoint" /\ sessions[i].op = "providers"
  /\ EndpointAnswer(i, 200,
       [object |-> "list",
        data |-> [p \in DOMAIN get_provider_status |->
                    ProviderInfo(p, get_provider_status[p])]])

\* ClientManager.get_model_provider: model_to_provider.get(model)
get_model_provider(model) ==
  IF model \in DOMAIN registry.model_to_provider
  THEN registry.model_to_provider[model] ELSE ""

\* GET /v1/models/{model_id}, the handler get_model_info; the 404 raised at
\* lines 69-72 for a model no provider lists is answered by not_found_handler,
\* which puts its own body in the place of the detail
GetModelInfo(i) ==
  /\ sessions[i].pc = "endpoint" /\ sessions[i].op = "model"
  /\ LET model_id == sessions[i].model_id
         provider == get_model_provider(model_id)
     IN  IF provider = ""
         THEN EndpointAnswer(i, 404, not_found_handler)
         ELSE EndpointAnswer(i, 200, ModelInfo(model_id, provider))

\* the rate_limit create_api_key gives every key
RateLimit == 1000

\* GET /v1/usage/summary: get_usage_summary
GetUsageSummary(cred, getok, setok, db) ==
  /\ LET a == Authenticate(cred, getok, setok, db)
     IN  /\ RequestRoom(a)
         /\ api_keys' = a.keys
         /\ redis' = a.redis
         /\ resp' = [op |-> "summary", cred |-> cred, code |-> a.code,
                     lookup |-> a.lookup,
                     body |-> IF a.code = 200
                              THEN [api_key_id |-> a.record.id,
                                    message |-> "Usage tracking is active",
                                    rate_limit |-> RateLimit,
                                    current_usage |-> a.record.usage_count]
                              ELSE a.body]
  /\ UNCHANGED <<now, ticks, nkeys, issued, notKeyVars>>

RECURSIVE SumTokens(_)
\* sum(log.tokens_used or 0 for log in logs)
SumTokens(rows) == IF rows = << >> THEN 0 ELSE rows[1].tokens_used + SumTokens(Tail(rows))

RECURSIVE SumCost(_)
\* sum(log.cost or 0.0 for log in logs)
SumCost(rows) == IF rows = << >> THEN 0 ELSE rows[1].cost + SumCost(Tail(rows))

\* a report over the rows of every key
UsageReport_AllRows(key_id, logs) ==
  LET of(p) == SelectSeq(logs, LAMBDA l : l.provider = p)
  IN  [api_key_id |-> key_id,
       total_requests |-> Len(logs),
       total_tokens |-> SumTokens(logs),
       total_cost |-> SumCost(logs),
       provider_breakdown |->
         [p \in {logs[i].provider : i \in 1..Len(logs)} |->
            [requests |-> Len(of(p)), tokens |-> SumTokens(of(p)), cost |-> SumCost(of(p))]]]

\* lines 21-54 of get_usage: the totals and the breakdown by provider of the
\* rows whose api_key_id is key_id
UsageReport(key_id, logs) ==
  LET rows == SelectSeq(logs, LAMBDA l : l.api_key_id = key_id)
      of(p) == SelectSeq(rows, LAMBDA l : l.provider = p)
  IN  [api_key_id |-> key_id,
       total_requests |-> Len(rows),
       total_tokens |-> SumTokens(rows),
       total_cost |-> SumCost(rows),
       provider_breakdown |->
         [p \in {rows[i].provider : i \in 1..Len(rows)} |->
            [requests |-> Len(of(p)), tokens |-> SumTokens(of(p)), cost |-> SumCost(of(p))]]]

\* GET /v1/usage/: get_usage
GetUsage(cred, getok, setok, db) ==
  /\ LET a == Authenticate(cred, getok, setok, db)
     IN  /\ RequestRoom(a)
         /\ api_keys' = a.keys
         /\ redis' = a.redis
         /\ resp' = [op |-> "usage", cred |-> cred, code |-> a.code, lookup |-> a.lookup,
                     body |-> IF a.code = 200 THEN UsageReport(a.record.id, usage_logs)
                              ELSE a.body]
  /\ UNCHANGED <<now, ticks, nkeys, issued, notKeyVars>>

\* the secrets presented: every secret issued, and the first without its prefix
SurfaceSecrets == {issued[id] : id \in KeyIds} \cup {<<RandAtom(1)>>}

\* each secret in each form of presentation, and no credential at all
SurfaceCredentials ==
  {Bearer(k) : k \in SurfaceSecrets} \cup {Direct(k) : k \in SurfaceSecrets}
    \cup {Vendor(k) : k \in SurfaceSecrets} \cup {NoCredential}

\* a secret after two blanks, a secret with a blank behind it, and an
\* Authorization header that is sent empty
BlankCredentials ==
  {Bearer(<<BlankAtom>> \o issued[id]) : id \in KeyIds}
    \cup {Direct(issued[id] \o <<BlankAtom>>) : id \in KeyIds}
    \cup {[authorization |-> <<EmptyAtom>>, x_api_key |-> NoStr]}

SurfaceModels == {"gpt-4", "no-such-model"}

MeterTargets ==
  {[model |-> "gpt-4", provider |-> ""], [model |-> "llama3-8b-8192", provider |-> "groq"]}

\* the requests that may wait for their handlers at once
SurfaceSlots == {1, 2}

NextSurface ==
  \/ \E name \in {<<"alice">>} : CreateKey(name, Description(NoStr), TRUE, "ok")
  \/ \E i \in SurfaceSlots, cred \in SurfaceCredentials \cup BlankCredentials :
       EndpointDepends(i, "list", "", cred, TRUE, TRUE, "ok")
  \/ \E i \in SurfaceSlots : ListKeys(i)
  \/ \E i \in SurfaceSlots, id \in KeyIds :
       GetCurrentKeyDepends(i, Bearer(issued[id]), TRUE, TRUE, "ok")
  \/ \E i \in SurfaceSlots : GetCurrentKey(i)
  \/ \E id \in KeyIds : TokenExchange(issued[id], MinHours)
  \/ \E id \in KeyIds : GetUsage(Bearer(issued[id]), TRUE, TRUE, "ok")

SpecSurface == Init /\ [][NextSurface]_vars

-----------------------------------------------------------------------------
(* The usage queries (api/usage.py) next to the completions that write the
   usage records: a completion waits for its upstream call, and the queries
   of its key and of other keys are answered while it does *)

NextUsage ==
  \/ \E name \in {<<"alice">>} : CreateKey(name, Description(NoStr), TRUE, "ok")
  \/ \E id \in KeyIds : GetUsage(Bearer(issued[id]), TRUE, TRUE, "ok")
  \/ \E id \in KeyIds : GetUsageSummary(Bearer(issued[id]), TRUE, TRUE, "ok")
  \/ \E id \in KeyIds, t \in MeterTargets :
       ChatAuth(Bearer(issued[id]), TRUE, "ok", t.model, t.provider, FALSE)
  \/ ChatResolve
  \/ \E u \in UpstreamResults : ChatInvoke(u.ok, u.usage, u.content, u.error)
  \/ \E dbok \in BOOLEAN : ChatLog(dbok)

SpecUsage == Init /\ [][NextUsage]_vars

-----------------------------------------------------------------------------
(* Every endpoint that answers an authenticated request from what the gateway
   holds (api/auth.py, api/models.py, api/usage.py, api/token_auth.py), with
   keys created with a description or with null, and a store that may raise;
   while one request waits for its handler, keys are created, tokens are
   exchanged and the usage endpoints are answered *)

\* the secrets presented: every secret generated so far
EndpointCredentials == {Bearer(generate_api_key(n).key) : n \in 1..nkeys}

NextEndpoints ==
  \/ \E name \in {<<"alice">>}, description \in Descriptions, db \in CreateOutcomes :
       CreateKey(name, description, TRUE, db)
  \/ \E cred \in EndpointCredentials, db \in StoreOutcomes :
       EndpointDepends(1, "list", "", cred, TRUE, TRUE, db)
  \/ \E cred \in EndpointCredentials, op \in {"models", "providers"} :
       EndpointDepends(1, op, "", cred, TRUE, TRUE, "ok")
  \/ \E cred \in EndpointCredentials, model \in SurfaceModels :
       EndpointDepends(1, "model", model, cred, TRUE, TRUE, "ok")
  \/ \E cred \in EndpointCredentials : GetCurrentKeyDepends(1, cred, TRUE, TRUE, "ok")
  \/ ListKeys(1)
  \/ GetCurrentKey(1)
  \/ ListModels(1)
  \/ ListProviders(1)
  \/ GetModelInfo(1)
  \/ \E cred \in EndpointCredentials : GetUsage(cred, TRUE, TRUE, "ok")
  \/ \E cred \in EndpointCredentials : GetUsageSummary(cred, TRUE, TRUE, "ok")
  \/ \E id \in KeyIds : TokenExchange(issued[id], MinHours)

SpecEndpoints == Init /\ [][NextEndpoints]_vars

-----------------------------------------------------------------------------
(* The key manager and its cache: keys are created, looked up, revoked by
   their holders, and cache entries expire *)

NextCache ==
  \/ \E name \in Names, setok \in BOOLEAN : CreateKey(name, Description(NoStr), setok, "ok")
  \/ \E key \in Secrets, getok \in BOOLEAN, setok \in BOOLEAN :
       (setok => getok) /\ VerifyLookup(key, getok, setok)
  \/ \E id \in KeyIds, up \in BOOLEAN :
       DeleteKeyDepends(1, id, Bearer(issued[id]), up, up, "ok")
  \/ \E dbok \in BOOLEAN : DeleteKey(1, dbok)
  \/ \E d \in Steps : Tick(d)

SpecCache == Init /\ [][NextCache]_vars

-----------------------------------------------------------------------------
(* Revocation: keys are created, with a description or with null, their
   holders ask for the revocation of their own key or of another, two requests
   at a time, and the store may raise; Redis is off *)

\* the requests that may be under way at once
RevokeSlots == {1, 2}

NextRevoke ==
  \/ \E name \in {<<"alice">>}, description \in Descriptions, db \in CreateOutcomes :
       CreateKey(name, description, FALSE, db)
  \/ \E i \in RevokeSlots, id, by \in KeyIds, db \in StoreOutcomes :
       DeleteKeyDepends(i, id, Bearer(issued[by]), FALSE, FALSE, db)
  \/ \E i \in RevokeSlots, dbok \in BOOLEAN : DeleteKey(i, dbok)
  \/ \E cred \in Requests, db \in StoreOutcomes :
       GetCurrentKeyDepends(3, cred, FALSE, FALSE, db)
  \/ GetCurrentKey(3)

SpecRevoke == Init /\ [][NextRevoke]_vars

-----------------------------------------------------------------------------
(* The usage counter of one key: completion requests that pass or fail at
   each stage of the handler, and the token endpoints *)

MeterCredentials ==
  {Bearer(issued[id]) : id \in KeyIds} \cup {Bearer(generate_api_key(nkeys + 1).key)}

MeterModels == {"gpt-4", "no-such-model"}

NextMeter ==
  \/ \E name \in {<<"alice">>} : CreateKey(name, Description(NoStr), FALSE, "ok")
  \/ \E cred \in MeterCredentials, model \in MeterModels, stream \in BOOLEAN :
       ChatAuth(cred, FALSE, "ok", model, "", stream)
  \/ \E db \in StoreOutcomes \ {"ok"} :
       nkeys > 0 /\ ChatAuth(Bearer(issued[KeyId(1)]), FALSE, db, "gpt-4", "", FALSE)
  \/ ChatResolve
  \/ \E u \in UpstreamResults : ChatInvoke(u.ok, u.usage, u.content, u.error)
  \/ \E dbok \in BOOLEAN : ChatLog(dbok)
  \/ StreamRaise
  \/ StreamEnd
  \/ \E dbok \in BOOLEAN : StreamLog(dbok)
  \/ \E n \in 1..(nkeys + 1) : TokenExchange(generate_api_key(n).key, MinHours)
  \/ \E t \in TokenInputs : TokenVerify(t)
  \/ \E t \in TokenInputs : TokenRefresh(t)
  \/ \E t \in TokenInputs : TokenRevoke(t)

SpecMeter == Init /\ [][NextMeter]_vars

-----------------------------------------------------------------------------
(* Claims about the key manager *)

Revoked(id) == QueryById(id) # None /\ ~QueryById(id).is_active
Active(id) == QueryById(id) # None /\ QueryById(id).is_active
IssuedFor(key) == {id \in DOMAIN issued : issued[id] = key}

\* C1: after a key is revoked, every KeyManager.verify of its raw secret fails
\* (returns no key), whatever the cache holds.
C1_RevokedVerifyFails ==
  (resp.op = "verify" /\ \E id \in IssuedFor(resp.key) : Revoked(id))
    => resp.record = None

\* C4: verify of the raw secret that create returned, while the key is as
\* create left it (active), returns the key with the id that create returned;
\* verify of a secret that differs from every issued secret (every secret that
\* a response of create has carried) returns no key.
C4_CreateThenVerify ==
  resp.op = "verify" =>
    /\ \A id \in IssuedFor(resp.key) :
         Active(id) => resp.record # None /\ resp.record.id = id
    /\ IssuedFor(resp.key) = {} => resp.record = None

-----------------------------------------------------------------------------
(* Claims about the token manager *)

SignatureVerifies(t) == "payload" \in DOMAIN t /\ t.sig = hmac(secret_key, t.payload)

\* C2: TokenManager.verify returns claims for a token only if the signature
\* verifies, the clock is before the token's expiry and the key named by the
\* subject exists and is active at that moment; a token issued for a key that
\* has since been revoked is refused.
C2_TokenValidOnlyIf ==
  resp.op = "token_verify" =>
    /\ resp.data # None =>
         /\ SignatureVerifies(resp.token)
         /\ now < resp.token.payload.exp
         /\ Active(resp.token.payload.sub)
         /\ resp.data.api_key_id = resp.token.payload.sub
    /\ (resp.token \in IssuedTokens /\ Revoked(resp.token.payload.sub)) =>
         resp.data = None

\* an issued, unexpired token of a revoked key was presented and refused
C2_Witness ==
  /\ resp.op = "token_verify"
  /\ resp.token \in IssuedTokens
  /\ now < resp.token.payload.exp
  /\ Revoked(resp.token.payload.sub)
  /\ resp.data = None
-----------------------------------------------------------------------------
(* Claims about concurrent requests *)

\* the requests that have presented the secret of key id
Presented(id) == {i \in 1..MaxSessions : sessions[i].pc # "start" /\ sessions[i].key = issued[id]}

\* C3: when N requests authenticated by the same active key are verified
\* concurrently, each on its own session, every one succeeds and the key's
\* usage_count ends exactly N higher than it started (it starts at 0).
C3_NoLostUpdate ==
  \A r \in api_keys :
    (\A i \in Presented(r.id) : sessions[i].pc # "loaded") =>
      /\ \A i \in Presented(r.id) : sessions[i].pc = "done"
      /\ r.usage_count = Cardinality(Presented(r.id))
-----------------------------------------------------------------------------
(* Claims about the completion endpoint *)

\* the key value the dependency takes from the credential
PresentedKey(cred) ==
  LET auth_header == AuthHeader(cred.authorization, cred.x_api_key)
  IN  IF falsy(auth_header) THEN NoStr ELSE ExtractKey(auth_header)

\* no key row carries the hash of the credential's key value
NoRowFor(cred) ==
  falsy(PresentedKey(cred)) \/ \A r \in api_keys : r.key_hash # sha256(PresentedKey(cred))

\* provider p is configured and lists the model
Lists(p, model) == p \in registry.clients /\ InSeq(model, registry.provider_models[p])

\* the model is unknown to every configured provider, or not listed by the
\* provider the request names
Unresolvable(model, provider) ==
  IF provider = "" THEN \A p \in registry.clients : ~Lists(p, model)
  ELSE ~Lists(provider, model)

\* C5: the upstream provider is invoked only after authentication and then
\* model resolution have succeeded; a request with an invalid credential, with
\* a model no configured provider knows, or with a model the named provider
\* does not list ends in 401 or 400 with no upstream invocation.
C5_UpstreamOnlyAfterAuthAndResolve ==
  /\ req.calls > 0 => req.key_id # "" /\ Lists(req.resolved, req.model)
  /\ (req.pc # "idle" /\ NoRowFor(req.cred)) =>
       req.pc = "done" /\ req.code = 401 /\ req.calls = 0
  /\ (req.pc \notin {"idle", "resolve"} /\ Unresolvable(req.model, req.provider)) =>
       req.pc = "done" /\ req.code \in {401, 400} /\ req.calls = 0

\* an authenticated request for a model its provider does not list was refused
C5_Witness ==
  /\ req.pc = "done" /\ req.key_id # "" /\ req.provider # ""
  /\ req.provider \in registry.clients
  /\ Unresolvable(req.model, req.provider)
  /\ req.code = 400 /\ req.calls = 0

\* C10: a completion request that presents an unexpired bearer token issued
\* for an active key is authenticated as that key and goes on to resolution.
C10_TokenAuthenticates ==
  \A t \in IssuedTokens :
    (req.pc # "idle" /\ req.cred = Bearer(JwtString(t))
       /\ now < t.payload.exp /\ Active(t.payload.sub))
      => req.code # 401 /\ req.key_id = t.payload.sub

Last(q) == q[Len(q)]
Terminal(e) == e.kind \in {"done", "error"}

\* the streamed response has been read to its end
StreamOver == req.stream /\ req.code = 200 /\ req.pc = "done"

\* C6: a streamed response read to its end terminates with exactly one
\* terminal element, the sentinel or an error chunk, and nothing follows it.
C6_OneTerminal ==
  /\ \A i \in 1..(Len(req.out) - 1) : ~Terminal(req.out[i])
  /\ StreamOver => Len(req.out) > 0 /\ Terminal(Last(req.out))

\* a stream ended on the sentinel and its usage was logged afterwards
C6_Witness ==
  /\ StreamOver /\ Last(req.out) = DoneChunk
  /\ Len(req.received) = MaxChunks
  /\ req.persist = "written"

\* the data chunks for the upstream chunks q
DataChunks(q) == [i \in 1..Len(q) |-> DataChunk(q[i], req.resolved)]

\* C7: when the upstream stream ends normally, each of the chunks
\* received is forwarded, in order, and the sentinel follows them.
C7_AllChunksForwarded ==
  (req.stream /\ req.out # << >> /\ Last(req.out) = DoneChunk) =>
    req.out = DataChunks(req.received) \o <<DoneChunk>>

\* the usage rows written for the request in hand
RowsOfRequest == SubSeq(usage_logs, req.log0 + 1, Len(usage_logs))

\* C8: when a stream ends normally and the usage row can be stored, a usage
\* figure on the final upstream chunk is captured and one row with that total
\* is written for the authenticated key; with no figure on any chunk no row is
\* written.
C8_FinalUsageLogged ==
  (StreamOver /\ Last(req.out) = DoneChunk /\ req.persist # "failed") =>
    /\ (req.received # << >> /\ Last(req.received).usage # None) =>
         /\ Len(RowsOfRequest) = 1
         /\ RowsOfRequest[1].tokens_used = Last(req.received).usage.total_tokens
         /\ RowsOfRequest[1].api_key_id = req.key_id
    /\ (\A i \in 1..Len(req.received) : req.received[i].usage = None) =>
         RowsOfRequest = << >>

\* C9: a failure to store the usage row leaves the response as it is: the
\* non-streaming completion returns the upstream result (one the response can
\* be built from), the stream has ended on its sentinel with no error chunk;
\* the failure is only logged.
C9_LogFailureSwallowed ==
  (req.pc = "done" /\ req.persist = "failed"
     /\ (req.stream \/ ResponseError(req.usage, req.content) = "")) =>
    /\ req.code = 200
    /\ req.stream => (Last(req.out) = DoneChunk /\ \A i \in 1..Len(req.out) : req.out[i] # ErrorChunk)
    /\ RowsOfRequest = << >>

\* the usage row of a stream could not be stored; the stream ended on the sentinel
C9_Witness ==
  /\ req.pc = "done" /\ req.persist = "failed" /\ req.stream
  /\ req.total_tokens > 0
  /\ Last(req.out) = DoneChunk
-----------------------------------------------------------------------------
(* Claims about the error surface and about revocation *)

\* a secret that no key was created with
UnissuedSecret == generate_api_key(nkeys + 1).key

\* C11: the authentication failure for a secret that matches no key is the
\* same as the one for the secret of a revoked key, whatever the store and the
\* cache hold.
C11_FailuresIndistinguishable ==
  \A id \in KeyIds : Revoked(id) =>
    \A up \in BOOLEAN :
      LET revoked == Authenticate(Bearer(issued[id]), up, up, "ok")
          unknown == Authenticate(Bearer(UnissuedSecret), up, up, "ok")
      IN  /\ revoked.code = 401
          /\ revoked.code = unknown.code
          /\ revoked.detail = unknown.detail

\* the is_active flag of the key id in the rows
Flag(rows, id) == (CHOOSE r \in rows : r.id = id).is_active

\* C12: a revoke request changes is_active only for the key that authenticated
\* it; a request that names another key id is refused with an authorization
\* error and leaves every is_active flag as it was.
C12_SelfRevocationOnly ==
  [][resp'.op = "delete" =>
       /\ \A r \in api_keys :
            Flag(api_keys', r.id) # r.is_active =>
              resp'.code = 200 /\ r.id = resp'.id /\ r.id = resp'.key_id
       /\ resp'.key_id # resp'.id =>
            /\ resp'.code \in {401, 403}
            /\ resp'.id # "-" => resp'.code = 403
            /\ \A r \in api_keys : Flag(api_keys', r.id) = r.is_active]_vars

\* a key asked for the revocation of another, active, key and was refused
C12_Witness ==
  /\ resp.op = "delete" /\ resp.code = 403
  /\ resp.id # "-" /\ resp.key_id # resp.id
  /\ Active(resp.key_id)
-----------------------------------------------------------------------------
(* Claims about token revocation and refresh *)

\* C13: revoking a token changes no state: the key store, the cache and the
\* tokens are as before, and a token that verified before the call still
\* verifies after it.
C13_RevokeChangesNothing ==
  [][resp'.op = "token_revoke" =>
       /\ UNCHANGED <<api_keys, redis, tokens, now>>
       /\ \A t \in TokenInputs : verify_token(t) # None => (verify_token(t))' # None
       /\ resp'.code = 200 <=> verify_token(resp'.token) # None]_vars

\* a token was revoked with success and verifies all the same
C13_Witness ==
  /\ resp.op = "token_revoke" /\ resp.code = 200
  /\ resp.token \in IssuedTokens
  /\ verify_token(resp.token) # None

\* C14: refresh succeeds exactly when verify succeeds; the new token has the
\* subject of the old one and expires default_expiry after the refresh,
\* whatever lifetime the old token had; refresh of an expired token fails.
C14_RefreshAsVerify ==
  resp.op = "token_refresh" =>
    /\ resp.code = 200 <=> verify_token(resp.token) # None
    /\ resp.code # 200 => resp.code = 401 /\ resp.data = None
    /\ resp.code = 200 =>
         /\ resp.data.access_token = Last(tokens)
         /\ SignatureVerifies(Last(tokens))
         /\ Last(tokens).payload.sub = resp.token.payload.sub
         /\ Last(tokens).payload.iat = now
         /\ Last(tokens).payload.exp = now + default_expiry
         /\ resp.data.expires_in = default_expiry
    /\ ("payload" \in DOMAIN resp.token /\ resp.token.payload.exp <= now) =>
         resp.code = 401

\* a token of another lifetime than the default was refreshed
C14_Witness ==
  /\ resp.op = "token_refresh" /\ resp.code = 200
  /\ resp.token.payload.exp - resp.token.payload.iat # default_expiry
  /\ Last(tokens).payload.exp = now + default_expiry
  /\ now > 0
-----------------------------------------------------------------------------
(* Claims about token issue and token verification *)

\* C15: no token is issued for a key id that is absent or inactive, the issue
\* fails instead; the exchange of the secret of a revoked key fails whatever
\* the cache holds.
C15_NoTokenForInactiveKey ==
  /\ \A id \in KeyIds \cup {KeyId(nkeys + 1)} :
       ~Active(id) => create_token(id, default_expiry).err # ""
  /\ resp.op = "token" =>
       /\ resp.code = 200 =>
            /\ resp.data.access_token = Last(tokens)
            /\ Active(resp.data.api_key_id)
            /\ resp.api_key = issued[resp.data.api_key_id]
       /\ (\E id \in IssuedFor(resp.api_key) : Revoked(id)) =>
            /\ resp.code # 200 /\ resp.data = None
            /\ (resp.hours >= MinHours /\ resp.hours <= MaxHours) => resp.code = 401

\* the secret of a revoked key, still in the cache as active, was refused
C15_Witness ==
  /\ resp.op = "token" /\ resp.code = 401
  /\ \E id \in IssuedFor(resp.api_key) :
       /\ Revoked(id)
       /\ redis_get(CacheKey(sha256(resp.api_key)))
            = FormatCache(id, QueryById(id).name, TRUE)

\* C16: every token issued by the exchange (JSON or form) lives between 1 and
\* 168 hours; a request outside that range is rejected by validation and no
\* token is issued.
C16_LifetimeInRange ==
  /\ \A i \in 1..Len(tokens) :
       /\ tokens[i].payload.exp - tokens[i].payload.iat >= MinHours * SecondsPerHour
       /\ tokens[i].payload.exp - tokens[i].payload.iat <= MaxHours * SecondsPerHour
  /\ (resp.op = "token" /\ (resp.hours < MinHours \/ resp.hours > MaxHours)) =>
       resp.code \in {422, 500} /\ resp.data = None
  /\ (resp.op = "token" /\ resp.code = 200) =>
       Last(tokens).payload.exp - Last(tokens).payload.iat = resp.hours * SecondsPerHour

\* a request of the form variant for more than 168 hours with the secret of an
\* active key was rejected in the handler, and a token had been issued before
C16_Witness ==
  /\ resp.op = "token" /\ resp.hours > MaxHours /\ resp.code = 500
  /\ \E id \in IssuedFor(resp.api_key) : Active(id)
  /\ tokens # << >>

\* C17: verify of a well-signed, unexpired token whose key is no
\* longer active fails with an outcome of its own, distinct from the outcome
\* for a bad signature, for an expired token and for a malformed token.
C17_KeyRevokedDistinct ==
  \A t \in IssuedTokens :
    (SignatureVerifies(t) /\ now < t.payload.exp /\ Revoked(t.payload.sub)) =>
      /\ VerifyOutcome(t).code # 200
      /\ VerifyOutcome(t) # VerifyOutcome(Forged(t))
      /\ VerifyOutcome(t) # VerifyOutcome(Garbage)
      /\ \A e \in IssuedTokens : e.payload.exp <= now => VerifyOutcome(t) # VerifyOutcome(e)
-----------------------------------------------------------------------------
(* Claims about the resolution of a model *)

\* the models a provider lists, as a set
ModelSet(p) == {ProviderModels(p)[i] : i \in 1..Len(ProviderModels(p))}

\* C18: with a preference, resolve returns that provider exactly when
\* it is configured and lists the model; otherwise it fails with 400 and a
\* message that includes that provider's model list; it never falls back.
C18_PreferenceOrListedFailure ==
  (resp.op = "resolve" /\ resp.preferred # "") =>
    /\ resp.result.code = 200 <=> Lists(resp.preferred, resp.model)
    /\ resp.result.code = 200 => resp.result.provider = resp.preferred
    /\ resp.result.code # 200 =>
         /\ resp.result.code = 400
         /\ resp.result.available = {ProviderModels(resp.preferred)}

\* C19: without a preference, resolve returns a configured provider that lists
\* the model whenever some configured provider lists it, and otherwise fails
\* with 400 and a message that lists every model of every configured provider.
C19_AutoDetect ==
  (resp.op = "resolve" /\ resp.preferred = "") =>
    IF \E p \in registry.clients : Lists(p, resp.model)
    THEN /\ resp.result.code = 200
         /\ Lists(resp.result.provider, resp.model)
    ELSE /\ resp.result.code = 400
         /\ resp.result.provider = ""
         /\ resp.result.available = {UNION {ModelSet(p) : p \in registry.clients}}

\* a model no configured provider lists was refused with the models of two
\* configured providers
C19_Witness ==
  /\ resp.op = "resolve" /\ resp.preferred = "" /\ resp.result.code = 400
  /\ Cardinality(registry.clients) >= 2
  /\ \E p \in {"openai", "gemini", "groq"} : InSeq(resp.model, FullModels(p))
-----------------------------------------------------------------------------
(* Claims about the usage of a key *)

\* C20: every verified use of a key sets the stored last-used timestamp of the
\* key to the time of the use: a key that has been used has its timestamp set.
C20_LastUsedSet ==
  \A r \in api_keys : r.usage_count > 0 => r.last_used # NoTime /\ r.last_used <= now
-----------------------------------------------------------------------------
(* Claims about the stored fields of a key *)

\* the row of key id in the rows
Row(rows, id) == CHOOSE r \in rows : r.id = id

\* C21: the stored usage_count of a key never decreases, under any
\* interleaving of concurrent requests; it changes only by the increment that
\* follows a successful verification of that key, and a request whose
\* authentication fails changes no usage_count.
C21_UsageCountMonotonic ==
  [][/\ \A r \in api_keys : Row(api_keys', r.id).usage_count >= r.usage_count
     /\ \A i \in 1..MaxSessions :
          sessions'[i].pc = "rejected" =>
            \A r \in api_keys : Row(api_keys', r.id).usage_count = r.usage_count
     /\ \A r \in api_keys :
          Row(api_keys', r.id).usage_count # r.usage_count =>
            \E i \in 1..MaxSessions :
              /\ sessions[i].pc = "loaded" /\ sessions'[i].pc = "done"
              /\ sessions[i].record.id = r.id]_vars

\* C22: a key row, once created, is never removed from the store and its id
\* and key_hash never change; its is_active flag only goes from true to false
\* and no operation sets it back to true.
C22_RowsKeptFlagOneWay ==
  [][\A r \in api_keys :
       /\ Cardinality({x \in api_keys' : x.id = r.id}) = 1
       /\ Row(api_keys', r.id).key_hash = r.key_hash
       /\ Row(api_keys', r.id).is_active => r.is_active]_vars

\* two revocations of one key were under way at once and both were carried
\* out; the row is kept, with both uses counted, and is inactive
C22_Witness ==
  /\ resp.op = "delete" /\ resp.code = 200
  /\ resp.id \in KeyIds /\ Revoked(resp.id)
  /\ QueryById(resp.id).key_hash = sha256(issued[resp.id])
  /\ QueryById(resp.id).usage_count = 2
  /\ nkeys = MaxKeys
-----------------------------------------------------------------------------
(* Claims about the usage records *)

\* the table t2 is the table t1 with rows added at its end
Extends(t2, t1) == Len(t2) >= Len(t1) /\ SubSeq(t2, 1, Len(t1)) = t1

\* the non-streaming request in hand was answered with the upstream result
Completed == ~req.stream /\ req.pc = "done" /\ req.code = 200

\* the stream in hand was read to its end and ended on the sentinel
EndedOnSentinel == StreamOver /\ Last(req.out) = DoneChunk

\* what holds of the rows of the request in hand, as stated
RowsAsStated ==
  /\ (Completed /\ req.persist # "failed") =>
       Len(RowsOfRequest) = 1 /\ RowsOfRequest[1].api_key_id = req.key_id
  /\ (EndedOnSentinel /\ req.persist # "failed") =>
       Len(RowsOfRequest) = 1 /\ RowsOfRequest[1].api_key_id = req.key_id

RowsAsAmended ==
  /\ (Completed /\ req.persist # "failed") =>
       Len(RowsOfRequest) = 1 /\ RowsOfRequest[1].api_key_id = req.key_id
  /\ (EndedOnSentinel /\ req.persist # "failed") =>
       IF req.total_tokens > 0
       THEN Len(RowsOfRequest) = 1 /\ RowsOfRequest[1].api_key_id = req.key_id
       ELSE RowsOfRequest = << >>

-----------------------------------------------------------------------------
(* Claims about the failures of the upstream call *)

\* C24: an error raised by the upstream completion call of a non-streaming
\* request is caught in the handler and answered with the upstream-failure
\* response, 500 "Chat completion failed: ..." carrying the message of the
\* error; the request ends there, answered, and writes no usage record.
C24_UpstreamErrorSurfaced ==
  (~req.stream /\ req.raised # "") =>
    /\ req.pc = "done" /\ req.calls = 1
    /\ req.code = 500 /\ req.detail = "Chat completion failed"
    /\ req.message = req.raised
    /\ RowsOfRequest = << >>

\* the upstream call of a non-streaming request was refused by the provider,
\* after an earlier request had been answered and metered
C24_Witness ==
  /\ ~req.stream /\ req.raised = "Error code: 429" /\ req.pc = "done"
  /\ req.code = 500 /\ req.message = "Error code: 429"
  /\ req.log0 = 1

\* C25: when the caller disconnects mid-stream after a usage figure has been
\* captured, one usage record with that figure is written for the key; when
\* no figure was known at the disconnect, none is written.
C25_PartialUsageRecorded ==
  (req.stream /\ req.pc = "closed") =>
    IF req.total_tokens > 0
    THEN /\ Len(RowsOfRequest) = 1
         /\ RowsOfRequest[1].tokens_used = req.total_tokens
         /\ RowsOfRequest[1].api_key_id = req.key_id
    ELSE RowsOfRequest = << >>
-----------------------------------------------------------------------------
(* Claims about the credential presented *)

\* the secret a credential presents: the header value, without "Bearer "
PresentedSecret(cred) ==
  LET auth_header == AuthHeader(cred.authorization, cred.x_api_key)
  IN  IF startswith(auth_header, BearerAtom) THEN replace(auth_header, BearerAtom)
      ELSE auth_header

\* the response is the 401 of the extraction step
InvalidFormat(r) ==
  /\ r.code = 401
  /\ "error" \in DOMAIN r.body
  /\ r.body.error = "Invalid authorization format"

\* C26: a credential whose secret does not carry the key prefix is rejected by
\* the extraction step with the invalid-format error and is not passed to
\* APIKeyManager.verify_api_key, whether it is presented as a Bearer value, as
\* a direct value or in the vendor header.
C26_PrefixlessRejected ==
  ("cred" \in DOMAIN resp /\ resp.cred # NoCredential
     /\ ~startswith(PresentedSecret(resp.cred), PrefixAtom)) =>
    InvalidFormat(resp) /\ resp.lookup = NoStr
-----------------------------------------------------------------------------
(* Claims about the usage query *)

\* the positions of the rows of key id, and of those of provider p among them
RowsOf(id) == {i \in 1..Len(usage_logs) : usage_logs[i].api_key_id = id}
RowsOfAt(id, p) == {i \in RowsOf(id) : usage_logs[i].provider = p}

\* rows another key than id might add: any other key id, either provider
RowsOfOthers(id) ==
  {[id |-> Len(usage_logs) + 1, api_key_id |-> other, provider |-> p, model |-> "gpt-4",
    endpoint |-> "/v1/chat/completions", tokens_used |-> 12, prompt_tokens |-> 5,
    completion_tokens |-> 7, cost |-> 12 * CostPer1k(p, "gpt-4")] :
     other \in (KeyIds \cup {KeyId(nkeys + 1)}) \ {id}, p \in {"openai", "groq"}}

\* the table with the figures of the rows of other keys than id changed
OthersChanged(id) ==
  [i \in 1..Len(usage_logs) |->
     IF usage_logs[i].api_key_id = id THEN usage_logs[i]
     ELSE [usage_logs[i] EXCEPT !.tokens_used = @ + 1, !.cost = @ + 1, !.provider = "gemini"]]

\* a step that answers a usage query: the steps of a completion leave the
\* last response as it is and move the request in hand
UsageAnswered == resp'.op = "usage" /\ resp'.code = 200 /\ req' = req

\* the usage response reports the rows of its key as the table holds them
ReportOfOwnRows ==
  LET id == resp.body.api_key_id
      own == SelectSeq(usage_logs, LAMBDA l : l.api_key_id = id)
  IN  /\ id \in IssuedFor(resp.lookup)
      /\ resp.body.total_requests = Cardinality(RowsOf(id))
      /\ resp.body.total_tokens = SumTokens(own)
      /\ resp.body.total_cost = SumCost(own)
      /\ DOMAIN resp.body.provider_breakdown = {own[i].provider : i \in 1..Len(own)}
      /\ \A p \in DOMAIN resp.body.provider_breakdown :
           /\ resp.body.provider_breakdown[p].requests = Cardinality(RowsOfAt(id, p))
           /\ resp.body.provider_breakdown[p].tokens
                = SumTokens(SelectSeq(own, LAMBDA l : l.provider = p))
           /\ resp.body.provider_breakdown[p].cost
                = SumCost(SelectSeq(own, LAMBDA l : l.provider = p))

\* C27: the usage query of an authenticated key reports total_requests,
\* total_tokens, total_cost and the breakdown by provider of exactly the rows
\* whose api_key_id is that key's id; rows of other keys, added or changed,
\* never change the result.  The report is the one of the table
\* as it is when the query is answered; a completion that is waiting for its
\* upstream call has written no row yet.
C27_UsageScopedToKey ==
  /\ [][UsageAnswered => ReportOfOwnRows']_vars
  /\ [](\A id \in KeyIds :
         /\ \A row \in RowsOfOthers(id) :
              UsageReport(id, Append(usage_logs, row)) = UsageReport(id, usage_logs)
         /\ UsageReport(id, OthersChanged(id)) = UsageReport(id, usage_logs))

\* a key with a usage record of its own asked for its usage while the table
\* held a record of another key
C27_Witness ==
  /\ resp.op = "usage" /\ resp.code = 200
  /\ resp.body.total_requests = 1 /\ resp.body.total_tokens = 12
  /\ \E i \in 1..Len(usage_logs) : usage_logs[i].api_key_id # resp.body.api_key_id
-----------------------------------------------------------------------------
(* Claims about the secret of a key *)

\* the fields of the responses that follow the creation of a key
InfoFields == {"id", "name", "description", "usage_count"}
SummaryFields == {"api_key_id", "message", "rate_limit", "current_usage"}
ModelFields == {"id", "object", "provider", "owned_by"}
ProviderFields == {"name", "enabled", "models", "model_count", "base_url"}

\* the secret generated for the key id
GeneratedSecret(id) == generate_api_key(CHOOSE n \in 1..nkeys : KeyId(n) = id).key
ReportFields ==
  {"api_key_id", "total_requests", "total_tokens", "total_cost", "provider_breakdown"}
TokenFields ==
  {"err", "access_token", "token_type", "expires_in", "expires_at", "api_key_id",
   "api_key_name"}
PayloadFields == {"sub", "name", "iat", "exp", "jti", "type"}

\* C28: the store and the cache hold the hash of a key's secret and never the
\* secret itself; the secret is in the response of the create call that
\* generated it (in none when that call fails), and the responses of list,
\* current-key info, usage query, usage summary, the model queries and token
\* exchange do not carry it.
C28_SecretOnlyAtCreation ==
  /\ \A r \in api_keys :
       /\ r.key_hash.alg = "sha256"
       /\ r.key_hash = sha256(GeneratedSecret(r.id))
       /\ r.id \in DOMAIN issued => issued[r.id] = GeneratedSecret(r.id)
       /\ DOMAIN r = {"id", "key_hash", "name", "description", "is_active",
                      "usage_count", "last_used"}
  /\ \A k \in DOMAIN redis :
       /\ k.hash.alg = "sha256"
       /\ \E r \in api_keys :
            /\ k = CacheKey(sha256(GeneratedSecret(r.id)))
            /\ redis[k].value = FormatCache(r.id, r.name, TRUE)
  /\ (resp.op = "create" /\ resp.code = 200) => resp.key = issued[resp.id]
  /\ (resp.op = "create" /\ resp.code # 200) =>
       /\ resp.key = NoStr /\ resp.id = "-"
       /\ resp.detail # CreateFailed => DOMAIN issued # {KeyId(n) : n \in 1..nkeys}
  /\ (resp.op = "list" /\ resp.code = 200) =>
       \A i \in 1..Len(resp.body.keys) : DOMAIN resp.body.keys[i] = InfoFields
  /\ resp.op = "current" => DOMAIN resp = {"op", "code", "detail", "id"}
  /\ (resp.op = "usage" /\ resp.code = 200) => DOMAIN resp.body = ReportFields
  /\ (resp.op = "summary" /\ resp.code = 200) => DOMAIN resp.body = SummaryFields
  /\ (resp.op = "model" /\ resp.code = 200) => DOMAIN resp.body = ModelFields
  /\ (resp.op = "models" /\ resp.code = 200) =>
       \A i \in 1..Len(resp.body.data) : DOMAIN resp.body.data[i] = ModelFields
  /\ (resp.op = "providers" /\ resp.code = 200) =>
       \A p \in DOMAIN resp.body.data : DOMAIN resp.body.data[p] = ProviderFields
  /\ (resp.op = "model" /\ resp.code = 404) => resp.body = not_found_handler
  /\ (resp.op = "token" /\ resp.code = 200) =>
       /\ DOMAIN resp.data = TokenFields
       /\ DOMAIN resp.data.access_token.payload = PayloadFields
       /\ resp.data.access_token.payload.sub = resp.data.api_key_id

\* the keys of a list response came after a create that cached its key, a
\* create that failed after it had stored and cached its key, and a token
\* exchange
C28_Witness ==
  /\ resp.op = "list" /\ resp.code = 200
  /\ DOMAIN redis # {} /\ tokens # << >>
  /\ nkeys = MaxKeys
  /\ \E r \in api_keys : r.id \notin DOMAIN issued /\ CacheKey(r.key_hash) \in DOMAIN redis
-----------------------------------------------------------------------------
(* Claims about the failures of the authentication *)

\* C29: no failure of the authentication step answers with a dump of the
\* headers of the request or with a stack trace.
C29_NoHeaderDump ==
  ("cred" \in DOMAIN resp /\ resp.code = 401) =>
    /\ "debug_headers" \notin DOMAIN resp.body
    /\ "traceback" \notin DOMAIN resp.body
-----------------------------------------------------------------------------
(* Claims about the cost of a usage record *)

\* C30: the rate per 1000 tokens is the table entry of the exact model under
\* the provider if there is one, else the provider's default entry if there is
\* one, else the global default, which is also the rate of a provider that is
\* not in the table; the cost is the tokens times the rate.
C30_RateLookupOrder ==
  resp.op = "cost" =>
    LET p == resp.provider
        m == resp.model
    IN  /\ IF p \in DOMAIN pricing /\ m \in DOMAIN pricing[p]
           THEN resp.rate = pricing[p][m]
           ELSE IF p \in DOMAIN pricing /\ "default" \in DOMAIN pricing[p]
           THEN resp.rate = pricing[p]["default"]
           ELSE resp.rate = GlobalDefault
        /\ p \notin {"openai", "gemini", "groq"} => resp.rate = GlobalDefault
        /\ p = "groq" => resp.rate = 1
        /\ (p = "openai" /\ m = "gpt-4") => resp.rate = 300
        /\ (p = "openai" /\ m = "gpt-3.5-turbo-16k") => resp.rate = GlobalDefault
        /\ resp.cost = resp.total_tokens * resp.rate

\* usage of a model that the table does not name was costed at the default
\* of its provider, which is not the global default
C30_Witness ==
  /\ resp.op = "cost" /\ resp.provider = "groq" /\ resp.model = "llama3-8b-8192"
  /\ resp.rate = 1 /\ resp.rate # GlobalDefault
  /\ resp.total_tokens = 1000 /\ resp.cost = 1000

-----------------------------------------------------------------------------
(* Claims about the cache path of the key manager *)

\* the liveness flag verify_api_key reads from a cached value: the third of
\* the fields split(":", 2) yields
CachedFlag(cached) == Split2(cached)[3]

\* C31: in KeyManager.verify a cache hit whose cached liveness flag is not true
\* is rejected at once, with no query of the store; the store is queried by id
\* only on a cache hit with the flag true, and by hash (filtered on is_active)
\* only on a cache miss.
C31_FlagNotTrueRejected ==
  resp.op = "lookup" =>
    /\ (resp.cached # NoStr /\ CachedFlag(resp.cached) # <<"True">>)
         => (resp.queries = << >> /\ resp.record = None)
    /\ "id" \in {resp.queries[i] : i \in DOMAIN resp.queries}
         => (resp.cached # NoStr /\ CachedFlag(resp.cached) = <<"True">>)
    /\ "key_hash, is_active" \in {resp.queries[i] : i \in DOMAIN resp.queries}
         => resp.cached = NoStr

\* the cache key of the secret that was issued for key id
EntryOf(id) == CacheKey(sha256(issued[id]))

\* the entries a step wrote: those that are new or differ from what was there
Written ==
  {k \in DOMAIN redis' : k \notin DOMAIN redis \/ redis'[k] # redis[k]}

\* C32: the staleness of the cache is bounded by its TTL: every entry is
\* written with a TTL of one hour, and once a key has been revoked no later
\* operation writes a cache entry for it, so that after its entry has expired
\* none exists again and every verify of its secret fails.
C32_StalenessBounded ==
  [][/\ \A k \in Written : redis'[k].expires = now + 1 * SecondsPerHour
     /\ \A id \in KeyIds : Revoked(id) =>
          /\ EntryOf(id) \notin Written
          /\ redis_get(EntryOf(id)) = NoStr =>
               /\ EntryOf(id) \notin DOMAIN redis'
               /\ (resp'.op = "lookup" /\ resp'.key = issued[id])
                    => resp'.record = None]_vars

\* a key is revoked, the TTL has passed since, so that its entry is gone, and
\* a verify of its secret that consulted the cache has failed
C32_Witness ==
  \E id \in KeyIds :
    /\ Revoked(id)
    /\ now >= CacheTTL
    /\ EntryOf(id) \notin DOMAIN redis
    /\ resp.op = "lookup" /\ resp.key = issued[id] /\ resp.getok
    /\ resp.record = None

\* the entry of hash key k says: live, with the id and name of the row that
\* holds that hash
EntryAsRow(k) ==
  \E r \in api_keys :
    /\ CacheKey(r.key_hash) = k
    /\ redis[k].value = FormatCache(r.id, r.name, TRUE)

\* C34: every cache entry ever written records the liveness flag true together
\* with the id and name of the store row that holds that hash: no operation
\* writes an entry with liveness false, and revoking a key neither removes nor
\* rewrites its cache entry (after a revocation request the cache is as it was
\* before the request, or as the verify of the presented secret left it).
C34_EntriesSayLive ==
  /\ [](\A k \in DOMAIN redis : EntryAsRow(k))
  /\ [][(resp'.op = "delete" /\ resp'.code = 200) =>
          /\ \A k \in DOMAIN redis :
               k \in DOMAIN redis' /\ redis'[k].value = redis[k].value
          /\ redis' \in {redis, verify_api_key(issued[resp'.key_id], TRUE, TRUE).redis}
       ]_vars

\* a key has just been revoked and its entry is still in the cache, saying live
C34_Witness ==
  /\ resp.op = "delete" /\ resp.code = 200
  /\ Revoked(resp.key_id)
  /\ EntryOf(resp.key_id) \in DOMAIN redis
  /\ redis[EntryOf(resp.key_id)].value[Len(redis[EntryOf(resp.key_id)].value)] = "True"

NoneRevoked == \A r \in api_keys : r.is_active

\* C35: in every state where no key has been revoked, KeyManager.verify with
\* the cache returns, for every presented secret, the same result (the same key
\* record, or no key) as KeyManager.verify without a cache, whatever the cache
\* holds, also for keys whose name contains the separator ':'.
C35_CacheTransparent ==
  NoneRevoked =>
    /\ \A key \in Secrets, setok \in BOOLEAN :
         verify_api_key(key, TRUE, setok).record
           = verify_api_key(key, FALSE, FALSE).record
    /\ resp.op = "lookup" => resp.record = verify_api_key(resp.key, FALSE, FALSE).record

\* no key is revoked, the cache holds the entry of a key named with a ':' and
\* a verify has returned a record by id after a cache hit
C35_Witness ==
  /\ NoneRevoked
  /\ \E r \in api_keys :
       Len(r.name) > 1 /\ redis_get(CacheKey(r.key_hash)) # NoStr
  /\ resp.op = "lookup" /\ resp.getok /\ resp.queries = <<"id">>
  /\ resp.record # None

-----------------------------------------------------------------------------
(* Claims about the usage counter *)

\* the rows with the usage_count of key id one higher
Counted(rows, id) ==
  {IF r.id = id THEN [r EXCEPT !.usage_count = @ + 1] ELSE r : r \in rows}

\* the step is the authentication of a completion request, and it passed
AuthPassed == Settled /\ req'.pc = "resolve"

\* the step is a later step of the handler: resolution, the upstream call, a
\* chunk, the end of the stream, the usage record
HandlerStep == ~Settled /\ req' # req

\* the step is a token exchange that issued a token, or a refresh that did
Exchanged == tokens' # tokens /\ resp'.op = "token"
Refreshed == tokens' # tokens /\ resp'.op = "token_refresh"

\* the step is an authentication that the store failed after the commit of
\* the increment
AuthFailedLate ==
  Settled /\ req'.pc = "done" /\ req'.code = 401 /\ req'.detail = VerificationFailed

\* the step is the answer of the verify, the refresh or the revoke endpoint
TokenAnswered ==
  resp' # resp /\ resp'.op \in {"token_verify", "token_refresh", "token_revoke"}

\* C36: each request that passes authentication increments the key's
\* usage_count exactly once, at authentication: no later step of the handler
\* changes the counter, so the increment stands when the request then fails
\* with 400 or with an upstream failure; a successful token exchange also
\* increments it once, and token verify, refresh and revoke leave every
\* counter as it is.  The only other change of a counter is the one increment
\* of an authentication that the store fails after the commit.
C36_CountedOnceAtAuth ==
  [][/\ AuthPassed => api_keys' = Counted(api_keys, req'.key_id)
     /\ HandlerStep => api_keys' = api_keys
     /\ Exchanged => \E id \in KeyIds :
                       issued[id] = resp'.api_key /\ api_keys' = Counted(api_keys, id)
     /\ Refreshed => api_keys' = api_keys
     /\ TokenAnswered => api_keys' = api_keys
     /\ (api_keys' # api_keys /\ nkeys' = nkeys /\ ~AuthPassed /\ ~Exchanged) =>
          /\ AuthFailedLate
          /\ \E id \in KeyIds :
               req'.cred = Bearer(issued[id]) /\ api_keys' = Counted(api_keys, id)
    ]_vars

\* a request of a key that one exchange and this request have counted has
\* failed after authentication, with 400 or with an upstream failure, and a
\* token has been refreshed
C36_Witness ==
  /\ req.pc = "done" /\ req.code \in {400, 500}
  /\ Row(api_keys, req.key_id).usage_count = 2
  /\ Len(tokens) = 2
  /\ resp.op \in {"token_verify", "token_revoke"} /\ resp.code = 200

-----------------------------------------------------------------------------
(* Claims about refreshed tokens *)

\* C37: refresh does not invalidate the token it was given: after a successful
\* refresh the old and the new token both verify, every issued token of an
\* active key verifies until its own expiry, and every token that verifies can
\* be refreshed into a token that verifies and expires a full default lifetime
\* from now, without the key's secret being presented.
C37_RefreshKeepsOldToken ==
  /\ (resp.op = "token_refresh" /\ resp.code = 200) =>
       /\ verify_token(resp.token) # None
       /\ verify_token(resp.data.access_token) # None
       /\ resp.data.access_token # resp.token
  /\ \A t \in IssuedTokens :
       (Active(t.payload.sub) /\ now < t.payload.exp) => verify_token(t) # None
  /\ \A t \in IssuedTokens :
       verify_token(t) # None =>
         LET new_token_data == refresh_token(t)
         IN  /\ new_token_data # None
             /\ new_token_data.err = ""
             /\ new_token_data.access_token.payload.exp = now + default_expiry
             /\ verify_token(new_token_data.access_token) # None

\* a token has been refreshed, and the old and the new token are both valid
C37_Witness ==
  /\ resp.op = "token_refresh" /\ resp.code = 200
  /\ Len(tokens) = 2
  /\ resp.token = tokens[1] /\ resp.data.access_token = tokens[2]
  /\ verify_token(tokens[1]) # None /\ verify_token(tokens[2]) # None

-----------------------------------------------------------------------------
(* Claims about streams that end on an error *)

\* the stream of the request has ended with an in-band error chunk
ErrorEnded ==
  /\ req.stream /\ req.pc = "done" /\ req.code = 200
  /\ req.out # << >> /\ Last(req.out) = ErrorChunk

\* C38: when a stream ends with an in-band error chunk (the upstream call
\* failed at creation or in mid-stream), no usage record is written for that
\* stream, even if a usage figure had been captured from an earlier chunk.
C38_ErrorStreamNotMetered ==
  ErrorEnded => RowsOfRequest = << >>

\* a stream has forwarded a chunk, captured its usage figure, failed on the
\* next read and ended with the error chunk
C38_Witness ==
  /\ ErrorEnded
  /\ req.total_tokens > 0
  /\ Len(req.out) >= 2 /\ req.out[1].kind = "data"
  /\ RowsOfRequest = << >>

-----------------------------------------------------------------------------
(* Claims about the registry after its set-up *)

\* C39: after the set-up of the registry, under every combination of
\* configured providers and failures of the client construction (the minimal
\* construction included), the providers that have a client are exactly those
\* that have a model list, so that get_available_models returns every list, and
\* every entry model -> p of the flattened index has p configured with the
\* model in p's list.
C39_ClientsMatchLists ==
  /\ registry.clients = DOMAIN registry.provider_models
  /\ get_available_models = registry.provider_models
  /\ \A m \in DOMAIN registry.model_to_provider :
       LET p == registry.model_to_provider[m]
       IN  /\ p \in registry.clients
           /\ p \in DOMAIN registry.provider_models
           /\ InSeq(m, registry.provider_models[p])

\* openai was constructed at once, groq on the minimal attempt, gemini has no
\* client, the index holds models of both, and a model has been resolved
C39_Witness ==
  /\ resp.op = "resolve" /\ resp.model = "llama3-8b-8192" /\ resp.result.code = 200
  /\ registry.clients = {"openai", "groq"}
  /\ registry.provider_models["openai"] = FullModels("openai")
  /\ registry.provider_models["groq"] = MinimalModels("groq")
  /\ "gemini-pro" \notin DOMAIN registry.model_to_provider
  /\ registry.model_to_provider["llama3-8b-8192"] = "groq"
  /\ registry.model_to_provider["gpt-4o"] = "openai"
=============================================================================
